---- MODULE Spec2Model ----
(***************************************************************************)
(* A model of the PropGPT front end's response-content interpreters:       *)
(*   - GraphDisplay (markdown table extraction and chart selection),       *)
(*   - ChatInterface.parseComparisonContent (per-item section splitter).   *)
(*                                                                         *)
(* JavaScript strings are modelled as sequences of one-character strings,  *)
(* so that split, trim, includes, parseFloat and the regular expressions   *)
(* are computed character by character as the engine computes them.        *)
(* Array indices are 1-based here (0-based in the source); "not found" is  *)
(* 0 here (-1 in the source).                                              *)
(***************************************************************************)
EXTENDS Integers, Sequences, FiniteSets, TLC

(***************************************************************************)
(* Bounds of the model.                                                    *)
(***************************************************************************)
\* Largest number of lines of a text handed to GraphDisplay.
MaxLines == 4

\* Largest number of lines of a text handed to parseComparisonContent.
MaxSplitLines == 4

\* Largest number of lines of a message about named or numbered items.
MaxHeadingLines == 4

\* Largest number of lines of a message handed to renderMarkdown.
MaxMarkdownLines == 4

\* Largest number of lines of a text with several runs of pipe lines.
MaxRunLines == 5

\* Largest number of getComparisonItems calls in flight at a time.
MaxRequests == 2

\* Most user messages of a conversation.
MaxSubmits == 3

\* Most correction placeholders of a conversation.
MaxCorrections == 1

\* Most submitFeedback calls in flight at once.
MaxFeedbackRequests == 1

\* Most messages that show an acknowledgement at once.
MaxRated == 1

(***************************************************************************)
(* String primitives of the JavaScript runtime, as used by the source.     *)
(***************************************************************************)
\* The characters String.prototype.trim and the regex class \s strip, among
\* the characters of the model's alphabet.
IsWS(c) == c \in {" ", "\t", "\r", "\n"}

IsDigit(c) == c \in {"0", "1", "2", "3", "4", "5", "6", "7", "8", "9"}

DigitVal(c) ==
    CASE c = "0" -> 0 [] c = "1" -> 1 [] c = "2" -> 2 [] c = "3" -> 3
      [] c = "4" -> 4 [] c = "5" -> 5 [] c = "6" -> 6 [] c = "7" -> 7
      [] c = "8" -> 8 [] c = "9" -> 9

\* s.slice(i) with a 1-based start.
DropTo(s, i) == SubSeq(s, i, Len(s))

\* Number of leading characters of s that satisfy IsWS.
LeadingWS(s) ==
    IF \A i \in 1..Len(s) : IsWS(s[i]) THEN Len(s)
    ELSE (CHOOSE i \in 1..Len(s) : ~IsWS(s[i]) /\ \A j \in 1..(i-1) : IsWS(s[j])) - 1

\* Number of trailing characters of s that satisfy IsWS.
TrailingWS(s) ==
    IF \A i \in 1..Len(s) : IsWS(s[i]) THEN Len(s)
    ELSE Len(s) - (CHOOSE i \in 1..Len(s) : ~IsWS(s[i]) /\ \A j \in (i+1)..Len(s) : IsWS(s[j]))

\* String.prototype.trim
trim(s) ==
    IF \A i \in 1..Len(s) : IsWS(s[i]) THEN <<>>
    ELSE SubSeq(s, LeadingWS(s) + 1, Len(s) - TrailingWS(s))

\* String.prototype.startsWith
startsWith(s, p) == Len(s) >= Len(p) /\ SubSeq(s, 1, Len(p)) = p

\* String.prototype.endsWith
endsWith(s, p) == Len(s) >= Len(p) /\ SubSeq(s, Len(s) - Len(p) + 1, Len(s)) = p

\* String.prototype.includes
includes(s, p) == \E i \in 1..(Len(s) - Len(p) + 1) : SubSeq(s, i, i + Len(p) - 1) = p

\* String.prototype.split with a one-character separator: always at least
\* one piece, "".split(sep) = [""].
RECURSIVE split(_, _)
split(s, sep) ==
    IF \A i \in 1..Len(s) : s[i] # sep THEN <<s>>
    ELSE LET i == CHOOSE k \in 1..Len(s) : s[k] = sep /\ \A j \in 1..(k-1) : s[j] # sep
         IN  <<SubSeq(s, 1, i - 1)>> \o split(DropTo(s, i + 1), sep)

\* Array.prototype.join with a one-character separator.
RECURSIVE join(_, _)
join(pieces, sep) ==
    IF Len(pieces) = 0 THEN <<>>
    ELSE IF Len(pieces) = 1 THEN pieces[1]
    ELSE pieces[1] \o <<sep>> \o join(Tail(pieces), sep)

\* String.prototype.replace(/,/g, ''): every comma removed.
RECURSIVE removeCommas(_)
removeCommas(s) ==
    IF Len(s) = 0 THEN <<>>
    ELSE IF Head(s) = "," THEN removeCommas(Tail(s))
    ELSE <<Head(s)>> \o removeCommas(Tail(s))

(***************************************************************************)
(* parseFloat.  The result is NaN, +-Infinity, or the decimal number       *)
(* mant / 10^scale, kept in lowest terms (scale = 0 or mant not a multiple *)
(* of 10) so that equal numbers have equal representations.                *)
(***************************************************************************)
NaN == [kind |-> "NaN", mant |-> 0, scale |-> 0]

Infinity(neg) == [kind |-> IF neg THEN "-Infinity" ELSE "Infinity", mant |-> 0, scale |-> 0]

\* The integer n as a parseFloat result.
Num(n) == [kind |-> "num", mant |-> n, scale |-> 0]

isNaN(v) == v.kind = "NaN"

\* Length of the longest prefix of s made of decimal digits.
DigitRun(s) ==
    IF \A i \in 1..Len(s) : IsDigit(s[i]) THEN Len(s)
    ELSE (CHOOSE i \in 1..Len(s) : ~IsDigit(s[i]) /\ \A j \in 1..(i-1) : IsDigit(s[j])) - 1

\* The value of a string of decimal digits (0 for the empty string).
RECURSIVE DigitsValue(_)
DigitsValue(ds) ==
    IF Len(ds) = 0 THEN 0
    ELSE 10 * DigitsValue(SubSeq(ds, 1, Len(ds) - 1)) + DigitVal(ds[Len(ds)])

RECURSIVE Pow10(_)
Pow10(k) == IF k <= 0 THEN 1 ELSE 10 * Pow10(k - 1)

\* m * 10^k in lowest terms, for m >= 0.
RECURSIVE Decimal(_, _)
Decimal(m, k) ==
    IF m = 0 THEN [mant |-> 0, scale |-> 0]
    ELSE IF k >= 0 THEN [mant |-> m * Pow10(k), scale |-> 0]
    ELSE IF m % 10 = 0 THEN Decimal(m \div 10, k + 1)
    ELSE [mant |-> m, scale |-> -k]

\* The value of an exponent part after its "e": an optional sign and the
\* digits that follow (0 without digits: the exponent part is then not read).
ExponentValue(e1) ==
    LET neg == Len(e1) > 0 /\ e1[1] = "-"
        e2  == IF Len(e1) > 0 /\ e1[1] \in {"+", "-"} THEN Tail(e1) ELSE e1
        v   == DigitsValue(SubSeq(e2, 1, DigitRun(e2)))
    IN  IF neg THEN 0 - v ELSE v

\* The exponent read from the text that follows the digits.
ExponentOf(s3) ==
    IF Len(s3) > 0 /\ s3[1] \in {"e", "E"} THEN ExponentValue(Tail(s3)) ELSE 0

\* The number with the given integer and fraction digits, followed by s3.
\* Without any digit there is no number.
UnsignedParts(intDigits, fracDigits, s3) ==
    IF Len(intDigits) + Len(fracDigits) = 0 THEN NaN
    ELSE LET d == Decimal(DigitsValue(intDigits \o fracDigits),
                          ExponentOf(s3) - Len(fracDigits))
         IN  [kind |-> "num", mant |-> d.mant, scale |-> d.scale]

\* The text after "." : the fraction digits and what follows them.
UnsignedFraction(intDigits, s) ==
    UnsignedParts(intDigits, SubSeq(s, 1, DigitRun(s)), DropTo(s, DigitRun(s) + 1))

\* The text after the integer digits: an optional fraction, then the rest.
UnsignedRest(intDigits, s2) ==
    IF Len(s2) > 0 /\ s2[1] = "." THEN UnsignedFraction(intDigits, Tail(s2))
    ELSE UnsignedParts(intDigits, <<>>, s2)

\* The longest prefix of s1 that is "Infinity" or an unsigned decimal literal.
Unsigned(s1) ==
    IF startsWith(s1, <<"I", "n", "f", "i", "n", "i", "t", "y">>) THEN Infinity(FALSE)
    ELSE UnsignedRest(SubSeq(s1, 1, DigitRun(s1)), DropTo(s1, DigitRun(s1) + 1))

Negated(v) ==
    IF v.kind = "Infinity" THEN Infinity(TRUE)
    ELSE IF v.kind = "num" THEN [v EXCEPT !.mant = 0 - v.mant]
    ELSE v

\* An optional sign, then the unsigned literal.
Signed(s0) ==
    IF Len(s0) > 0 /\ s0[1] = "-" THEN Negated(Unsigned(Tail(s0)))
    ELSE IF Len(s0) > 0 /\ s0[1] = "+" THEN Unsigned(Tail(s0))
    ELSE Unsigned(s0)

\* Leading white space is skipped, what follows the literal is ignored.
parseFloat(str) == Signed(DropTo(str, LeadingWS(str) + 1))

(***************************************************************************)
(* GraphDisplay: the table extractor.                                      *)
(***************************************************************************)
\* The three outcomes of a call: a value, null, or a thrown TypeError.
NoTable == [kind |-> "null", headers |-> <<>>, data |-> <<>>]

TableThrow == [kind |-> "throw", headers |-> <<>>, data |-> <<>>]

\* lines[i].trim().startsWith('|') && lines[i].trim().endsWith('|')
IsPipeLine(line) == startsWith(trim(line), <<"|">>) /\ endsWith(trim(line), <<"|">>)

\* The scan loop's tableStart: the first pipe line (0: none).
TableStart(lines) ==
    IF \A i \in 1..Len(lines) : ~IsPipeLine(lines[i]) THEN 0
    ELSE CHOOSE i \in 1..Len(lines) :
            IsPipeLine(lines[i]) /\ \A j \in 1..(i-1) : ~IsPipeLine(lines[j])

\* The mutant of the scan loop: it does not break, and tableEnd is the last
\* pipe line of the text.
TableEnd_noBreak(lines) ==
    IF TableStart(lines) = 0 THEN 0
    ELSE CHOOSE e \in 1..Len(lines) :
            IsPipeLine(lines[e]) /\ \A j \in (e + 1)..Len(lines) : ~IsPipeLine(lines[j])

\* The scan loop's tableEnd: the loop breaks at the first non-pipe line after
\* tableStart, so tableEnd is the last line of the run that starts there.
TableEnd(lines) ==
    LET st == TableStart(lines)
    IN  IF st = 0 THEN 0
        ELSE CHOOSE e \in st..Len(lines) :
                /\ \A j \in st..e : IsPipeLine(lines[j])
                /\ (e = Len(lines) \/ ~IsPipeLine(lines[e + 1]))

\* tableLines[i].includes('---') || tableLines[i].includes(':--')
IsDivider(line) == includes(line, <<"-", "-", "-">>) \/ includes(line, <<":", "-", "-">>)

\* The mutant of the divider search: every line of the run is looked at.
DividerIndex_anywhere(tableLines) ==
    IF \A i \in 1..Len(tableLines) : ~IsDivider(tableLines[i]) THEN 0
    ELSE CHOOSE i \in 1..Len(tableLines) :
            IsDivider(tableLines[i]) /\ \A j \in 1..(i-1) : ~IsDivider(tableLines[j])

\* The first divider among the first Math.min(3, length) lines (0: none).
DividerIndex(tableLines) ==
    LET n == IF Len(tableLines) < 3 THEN Len(tableLines) ELSE 3
    IN  IF \A i \in 1..n : ~IsDivider(tableLines[i]) THEN 0
        ELSE CHOOSE i \in 1..n :
                IsDivider(tableLines[i]) /\ \A j \in 1..(i-1) : ~IsDivider(tableLines[j])

NonBlank(c) == trim(c) # <<>>

\* The mutant of the cell list: a text that occurred before is left out.
Cells_distinct(line) ==
    LET kept == SelectSeq(split(line, "|"), NonBlank)
        all  == [i \in 1..Len(kept) |-> trim(kept[i])]
        first == {i \in 1..Len(all) : \A j \in 1..(i-1) : all[j] # all[i]}
    IN  [k \in 1..Cardinality(first) |->
            all[CHOOSE i \in first : Cardinality({j \in first : j <= i}) = k]]

\* line.split('|').filter(c => c.trim()).map(c => c.trim())
Cells(line) ==
    LET kept == SelectSeq(split(line, "|"), NonBlank)
    IN  [i \in 1..Len(kept) |-> trim(kept[i])]

\* The mutant of the row filter: every data line is kept.
RowKept_keepAll(row, headers) == TRUE

\* if (row.length === headers.length) data.push(row)
RowKept(row, headers) == Len(row) = Len(headers)

\* The data loop: the rows of the lines after the divider, in order.
RECURSIVE DataRows(_, _, _)
DataRows(tableLines, i, headers) ==
    IF i > Len(tableLines) THEN <<>>
    ELSE LET row == Cells(tableLines[i])
         IN  (IF RowKept(row, headers) THEN <<row>> ELSE <<>>)
             \o DataRows(tableLines, i + 1, headers)

\* The mutant of the length check: a run of two lines is accepted.
TooShort_two(tableLines) == Len(tableLines) < 2

\* if (tableLines.length < 3) return null
TooShort(tableLines) == Len(tableLines) < 3

parseMarkdownTable(md) ==
    IF md = <<>> THEN NoTable                       \* if (!md) return null
    ELSE
    LET lines      == split(md, "\n")
        tableStart == TableStart(lines)
        tableEnd   == TableEnd(lines)
        tableLines == SubSeq(lines, tableStart, tableEnd)
        dividerIndex == DividerIndex(tableLines)
        headerLines  == SubSeq(tableLines, 1, dividerIndex - 1)
        headers      == Cells(headerLines[Len(headerLines)])
    IN  IF tableStart = 0 THEN NoTable
        ELSE IF TooShort(tableLines) THEN NoTable
        ELSE IF dividerIndex = 0 THEN NoTable
        \* headerLines[headerLines.length - 1] is undefined when the divider
        \* is the run's first line: undefined.split raises a TypeError
        ELSE IF Len(headerLines) = 0 THEN TableThrow
        ELSE [kind |-> "table", headers |-> headers,
              data |-> DataRows(tableLines, dividerIndex + 1, headers)]

\* /^\d+\s*-\s*\d+$/.test(value)
isRange(value) ==
    LET n1 == DigitRun(value)
        r1 == DropTo(value, n1 + 1)
        r2 == DropTo(r1, LeadingWS(r1) + 1)
        r3 == IF Len(r2) > 0 THEN Tail(r2) ELSE <<>>
        r4 == DropTo(r3, LeadingWS(r3) + 1)
    IN  /\ n1 >= 1
        /\ Len(r2) > 0 /\ r2[1] = "-"
        /\ Len(r4) >= 1
        /\ DigitRun(r4) = Len(r4)

(***************************************************************************)
(* GraphDisplay: column classification and the chart selector.             *)
(***************************************************************************)
\* Number of entries of chartColors.
PaletteSize == 10

\* row[0]; undefined for a row without cells, which the regex test reads as
\* the string "undefined".
Undefined == <<"undefined">>

LabelOf(row) == IF Len(row) = 0 THEN Undefined ELSE row[1]

\* tableData.data.map(row => row[0])
Labels(data) == [r \in 1..Len(data) |-> LabelOf(data[r])]

\* The mutant of the label test: every label has to be a range.
HasRangeLabels_all(labels) == \A r \in 1..Len(labels) : isRange(labels[r])

\* labels.some(label => isRange(label))
HasRangeLabels(labels) == \E r \in 1..Len(labels) : isRange(labels[r])

\* parseFloat(row[i].replace(/,/g, '')), for the 1-based column c.
CellNumber(row, c) == parseFloat(removeCommas(row[c]))

\* The mutant of the column test: one parsing cell is enough.
IsNumeric_some(data, c) == \E r \in 1..Len(data) : ~isNaN(CellNumber(data[r], c))

\* tableData.data.every(row => !isNaN(parseFloat(row[i].replace(/,/g, ''))))
IsNumeric(data, c) == \A r \in 1..Len(data) : ~isNaN(CellNumber(data[r], c))

\* The loop over the columns i = 1 .. headers.length - 1 of the source, that
\* is the 1-based columns c = 2 .. Len(headers); columnIndex keeps the
\* source's 0-based index.
RECURSIVE Datasets(_, _, _)
Datasets(headers, data, c) ==
    IF c > Len(headers) THEN <<>>
    ELSE (IF IsNumeric(data, c)
          THEN << [label |-> headers[c],
                   data |-> [r \in 1..Len(data) |-> CellNumber(data[r], c)],
                   columnIndex |-> c - 1] >>
          ELSE <<>>)
         \o Datasets(headers, data, c + 1)

\* datasets.map((ds, i) => ({label, data, backgroundColor: chartColors[i % 10], ...}))
\* with the colour kept as its index in chartColors.
Series(datasets, borderWidth) ==
    [i \in 1..Len(datasets) |->
        [label |-> datasets[i].label,
         data |-> datasets[i].data,
         backgroundColor |-> (i - 1) % PaletteSize,
         borderColor |-> (i - 1) % PaletteSize,
         borderWidth |-> borderWidth]]

BarChart(title, labels, datasets) ==
    [type |-> "bar", title |-> title,
     data |-> [labels |-> labels, datasets |-> Series(datasets, 1)]]

LineChart(labels, datasets) ==
    [type |-> "line", title |-> <<"Trend (Line)">>,
     data |-> [labels |-> labels, datasets |-> Series(datasets, 2)]]

\* x and y pair the first two numeric columns row by row.
ScatterChart(data, datasets) ==
    [type |-> "scatter",
     title |-> <<"Correlation: ">> \o datasets[1].label \o <<" vs ">> \o datasets[2].label,
     data |-> [datasets |->
        << [label |-> <<"Data Points">>,
            data |-> [r \in 1..Len(data) |->
                        [x |-> datasets[1].data[r], y |-> datasets[2].data[r]]],
            backgroundColor |-> 0, borderColor |-> 0] >>]]

\* The mutant of the pie and doughnut charts: the last dataset is drawn.
RoundChart_lastDataset(type, prefix, labels, datasets) ==
    [type |-> type, title |-> <<prefix>> \o datasets[Len(datasets)].label,
     data |-> [labels |-> labels,
               datasets |-> << [data |-> datasets[Len(datasets)].data,
                                backgroundColor |-> [i \in 1..PaletteSize |-> i - 1],
                                borderWidth |-> 1] >>]]

\* The pie and the doughnut chart: the first dataset only, the whole palette.
RoundChart(type, prefix, labels, datasets) ==
    [type |-> type, title |-> <<prefix>> \o datasets[1].label,
     data |-> [labels |-> labels,
               datasets |-> << [data |-> datasets[1].data,
                                backgroundColor |-> [i \in 1..PaletteSize |-> i - 1],
                                borderWidth |-> 1] >>]]

\* The mutant of the range branch: the scatter chart needs one numeric column.
RangeCharts_scatterAlways(labels, data, datasets) ==
    << BarChart(<<"Distribution (Histogram)">>, labels, datasets) >>
    \o (IF Len(datasets) >= 1
        THEN << ScatterChart(data, datasets \o datasets) >> ELSE <<>>)

\* if (hasRangeLabels) { bar; scatter if datasets.length >= 2 }
RangeCharts(labels, data, datasets) ==
    << BarChart(<<"Distribution (Histogram)">>, labels, datasets) >>
    \o (IF Len(datasets) >= 2 THEN << ScatterChart(data, datasets) >> ELSE <<>>)

\* The mutant of the continuous branch: the pie chart is left out.
ContinuousCharts_noPie(labels, datasets) ==
    << BarChart(<<"Comparison (Bar)">>, labels, datasets),
       LineChart(labels, datasets) >>
    \o (IF Len(datasets) > 0
        THEN << RoundChart("doughnut", "Proportion - ", labels, datasets) >> ELSE <<>>)

\* else { bar; line; pie and doughnut if datasets.length > 0 }
ContinuousCharts(labels, datasets) ==
    << BarChart(<<"Comparison (Bar)">>, labels, datasets),
       LineChart(labels, datasets) >>
    \o (IF Len(datasets) > 0
        THEN << RoundChart("pie", "Distribution - ", labels, datasets) >> ELSE <<>>)
    \o (IF Len(datasets) > 0
        THEN << RoundChart("doughnut", "Proportion - ", labels, datasets) >> ELSE <<>>)

\* charts.slice(0, 4)
Slice4(charts) == SubSeq(charts, 1, IF Len(charts) < 4 THEN Len(charts) ELSE 4)

\* What a render of GraphDisplay gives: null, the chart descriptors it draws,
\* or the TypeError raised by parseMarkdownTable.
RenderNull == [kind |-> "null", charts |-> <<>>]

RenderThrow == [kind |-> "throw", charts |-> <<>>]

\* The mutant of the datasets check: charts are built without numeric columns.
NothingToChart_never(datasets) == FALSE

\* if (datasets.length === 0) return null
NothingToChart(datasets) == Len(datasets) = 0

\* The column loop reads row[i] of a row that has no cell i: row[i] is
\* undefined and undefined.replace raises a TypeError.  every() stops at the
\* first cell that gives NaN, so the rows before the short one must parse.
\* (No row kept by the length check of parseMarkdownTable is short.)
ReadsMissingCell(headers, data) ==
    \E c \in 2..Len(headers) : \E r \in 1..Len(data) :
        /\ Len(data[r]) < c
        /\ \A q \in 1..(r-1) : Len(data[q]) >= c /\ ~isNaN(CellNumber(data[q], c))

\* The component body after useMemo.
GraphDisplay(tableData) ==
    IF tableData.kind = "throw" THEN RenderThrow
    ELSE IF tableData.kind = "null" \/ Len(tableData.data) = 0 THEN RenderNull
    ELSE IF ReadsMissingCell(tableData.headers, tableData.data) THEN RenderThrow
    ELSE
    LET labels         == Labels(tableData.data)
        hasRangeLabels == HasRangeLabels(labels)
        datasets       == Datasets(tableData.headers, tableData.data, 2)
        charts         == IF hasRangeLabels
                          THEN RangeCharts(labels, tableData.data, datasets)
                          ELSE ContinuousCharts(labels, datasets)
    IN  IF NothingToChart(datasets) THEN RenderNull
        ELSE [kind |-> "charts", charts |-> Slice4(charts)]

(***************************************************************************)
(* ChatInterface: parseComparisonContent.                                  *)
(***************************************************************************)
UpperCase == <<"A", "B", "C", "D", "E", "F", "G", "H", "I", "J", "K", "L", "M",
               "N", "O", "P", "Q", "R", "S", "T", "U", "V", "W", "X", "Y", "Z">>

LowerCase == <<"a", "b", "c", "d", "e", "f", "g", "h", "i", "j", "k", "l", "m",
               "n", "o", "p", "q", "r", "s", "t", "u", "v", "w", "x", "y", "z">>

\* String.prototype.toLowerCase
toLowerCase(s) ==
    [i \in 1..Len(s) |->
        IF \E k \in 1..26 : UpperCase[k] = s[i]
        THEN LowerCase[CHOOSE k \in 1..26 : UpperCase[k] = s[i]]
        ELSE s[i]]

\* The mutant of the search: an element that contains x, or is contained in
\* it, is found too.
indexOf_contains(arr, x) ==
    LET near(i) == includes(arr[i], x) \/ includes(x, arr[i])
    IN  IF \A i \in 1..Len(arr) : ~near(i) THEN 0
        ELSE CHOOSE i \in 1..Len(arr) : near(i) /\ \A j \in 1..(i-1) : ~near(j)

\* Array.prototype.indexOf, 1-based (0: not found).
indexOf(arr, x) ==
    IF \A i \in 1..Len(arr) : arr[i] # x THEN 0
    ELSE CHOOSE i \in 1..Len(arr) : arr[i] = x /\ \A j \in 1..(i-1) : arr[j] # x

\* The opening alternative (?:###|\[|\*\*) at the start of the trimmed line:
\* the number of characters it consumes (0: the regex does not match).
OpenerLen(t) ==
    IF startsWith(t, <<"#", "#", "#">>) THEN 3
    ELSE IF startsWith(t, <<"[">>) THEN 1
    ELSE IF startsWith(t, <<"*", "*">>) THEN 2
    ELSE 0

\* \s*(?:\]|\*\*|$) matches right after the first n characters of rest.
ClosesAfter(rest, n) ==
    LET r == DropTo(rest, n + 1)
        q == DropTo(r, LeadingWS(r) + 1)
    IN  q = <<>> \/ startsWith(q, <<"]">>) \/ startsWith(q, <<"*", "*">>)

\* trimmedLine.match(/^(?:###|\[|\*\*)\s*(.*?)\s*(?:\]|\*\*|$)/): whether it
\* matches and its capture group 1, the shortest text after which the closing
\* part matches (the group is lazy).  Lines hold no line terminator.
headerMatch(trimmedLine) ==
    LET k    == OpenerLen(trimmedLine)
        r0   == DropTo(trimmedLine, k + 1)
        rest == DropTo(r0, LeadingWS(r0) + 1)
        n    == CHOOSE m \in 0..Len(rest) :
                    ClosesAfter(rest, m) /\ \A j \in 0..(m-1) : ~ClosesAfter(rest, j)
    IN  IF k = 0 THEN [matched |-> FALSE, group |-> <<>>]
        ELSE [matched |-> TRUE, group |-> SubSeq(rest, 1, n)]

\* The index in items (1-based, 0: none) of the item a line is a heading of.
HeadingItem(line, items) ==
    LET m == headerMatch(trim(line))
    IN  IF m.matched
        THEN indexOf([i \in 1..Len(items) |-> toLowerCase(items[i])],
                     toLowerCase(trim(m.group)))
        ELSE 0

\* The sections object: its own properties in the order they were created.
HasKey(sections, key) == \E i \in 1..Len(sections) : sections[i].key = key

\* The mutant of the creation: a heading for a known item empties its section.
EnsureKey_reset(sections, key) ==
    IF \E i \in 1..Len(sections) : sections[i].key = key
    THEN [i \in 1..Len(sections) |->
            IF sections[i].key = key THEN [key |-> key, value |-> <<>>] ELSE sections[i]]
    ELSE Append(sections, [key |-> key, value |-> <<>>])

\* The mutant of the creation: a heading creates no key.
EnsureKey_never(sections, key) == sections

\* if (!sections[currentItem]) sections[currentItem] = "": a missing key is
\* created, an existing one keeps its place (and, being "", its value).
EnsureKey(sections, key) ==
    IF HasKey(sections, key) THEN sections
    ELSE Append(sections, [key |-> key, value |-> <<>>])

\* sections[key] += text
AppendTo(sections, key, text) ==
    [i \in 1..Len(sections) |->
        IF sections[i].key = key
        THEN [key |-> key, value |-> sections[i].value \o text]
        ELSE sections[i]]

\* The mutant of the append: the line is added without its newline.
Appended_noNewline(line) == line

\* line + '\n'
Appended(line) == line \o <<"\n">>

\* The body of lines.forEach, applied to lines[i..]; st holds the closure's
\* sections, currentItem (cur, with hasCur FALSE for null) and generalContent.
RECURSIVE Walk(_, _, _, _)
Walk(lines, i, items, st) ==
    IF i > Len(lines) THEN st
    ELSE
    LET itemIndex == HeadingItem(lines[i], items)
    IN  IF itemIndex # 0
        THEN Walk(lines, i + 1, items,
                  [st EXCEPT !.hasCur = TRUE, !.cur = items[itemIndex],
                             !.sections = EnsureKey(st.sections, items[itemIndex])])
        \* if (currentItem): null and the empty string are both falsy
        ELSE IF st.hasCur /\ st.cur # <<>>
        THEN Walk(lines, i + 1, items,
                  [st EXCEPT !.sections = AppendTo(st.sections, st.cur, Appended(lines[i]))])
        ELSE Walk(lines, i + 1, items,
                  [st EXCEPT !.generalContent = st.generalContent \o Appended(lines[i])])

\* A property name that is an array index: "0", or digits without a leading
\* zero.  Object.keys lists these first, in ascending numeric order.
IsArrayIndex(key) ==
    /\ Len(key) >= 1
    /\ \A i \in 1..Len(key) : IsDigit(key[i])
    /\ (Len(key) = 1 \/ key[1] # "0")

\* The entries among sections whose keys are array indices, ascending.
RECURSIVE IndexEntries(_)
IndexEntries(sections) ==
    LET idx == {i \in 1..Len(sections) : IsArrayIndex(sections[i].key)}
    IN  IF idx = {} THEN <<>>
        ELSE LET lo == CHOOSE i \in idx : \A j \in idx :
                          DigitsValue(sections[i].key) <= DigitsValue(sections[j].key)
             IN  <<sections[lo]>> \o
                 IndexEntries([k \in 1..(Len(sections) - 1) |->
                                  IF k < lo THEN sections[k] ELSE sections[k + 1]])

IsNamedEntry(e) == ~IsArrayIndex(e.key)

\* The own properties of sections in the engine's enumeration order.
Entries(sections) == IndexEntries(sections) \o SelectSeq(sections, IsNamedEntry)

\* Object.keys(sections)
ObjectKeys(sections) == LET es == Entries(sections) IN [i \in 1..Len(es) |-> es[i].key]

NoSplit == [kind |-> "null", generalContent |-> <<>>, sections |-> <<>>, foundItems |-> <<>>]

SplitThrow == [kind |-> "throw", generalContent |-> <<>>, sections |-> <<>>, foundItems |-> <<>>]

\* The mutant of the guard: the missing list is not tested for, and
\* undefined.length raises a TypeError.
EarlyReturn_noNullCheck(items) ==
    IF ~items.present THEN "throw"
    ELSE IF Len(items.list) <= 1 THEN "null"
    ELSE "continue"

\* if (!items || items.length <= 1) return null; a missing list (undefined)
\* is items.present = FALSE.
EarlyReturn(items) ==
    IF ~items.present \/ Len(items.list) <= 1 THEN "null" ELSE "continue"

parseComparisonContent(content, items) ==
    IF EarlyReturn(items) = "null" THEN NoSplit
    ELSE IF EarlyReturn(items) = "throw" THEN SplitThrow
    ELSE
    LET lines == split(content, "\n")
        st    == Walk(lines, 1, items.list,
                      [sections |-> <<>>, hasCur |-> FALSE, cur |-> <<>>,
                       generalContent |-> <<>>])
        foundItems == ObjectKeys(st.sections)
    IN  IF Len(foundItems) < 2 THEN NoSplit
        ELSE [kind |-> "split", generalContent |-> st.generalContent,
              sections |-> Entries(st.sections), foundItems |-> foundItems]

(***************************************************************************)
(* ChatInterface: renderMarkdown.  The texts of the model have "\n" as     *)
(* their only line terminator.                                             *)
(***************************************************************************)
\* One line under .replace(/^\[(.*?)\]$/gm, '### $1'): the group is lazy and
\* "]" has to end the line, so the group is all between the first and the
\* last character.
RewriteBracketLine(line) ==
    IF Len(line) >= 2 /\ line[1] = "[" /\ line[Len(line)] = "]"
    THEN <<"#", "#", "#", " ">> \o SubSeq(line, 2, Len(line) - 1)
    ELSE line

\* content.replace(/^\[(.*?)\]$/gm, '### $1')
RewriteBrackets(text) ==
    LET lines == split(text, "\n")
    IN  join([i \in 1..Len(lines) |-> RewriteBracketLine(lines[i])], "\n")

\* The end of the match of /### (.*?)\n(?!\n)/ that starts at i (0: no
\* match there): "### " at i, the first newline after it, and no newline
\* right after that one.
SpacingMatchEnd(text, i) ==
    IF i + 4 > Len(text) \/ SubSeq(text, i, i + 3) # <<"#", "#", "#", " ">> THEN 0
    ELSE LET nls == {n \in (i + 4)..Len(text) : text[n] = "\n"}
         IN  IF nls = {} THEN 0
             ELSE LET n == CHOOSE x \in nls : \A y \in nls : x <= y
                  IN  IF n < Len(text) /\ text[n + 1] = "\n" THEN 0 ELSE n

\* The places from p on where the pattern matches.
SpacingStarts(text, p) == {i \in p..Len(text) : SpacingMatchEnd(text, i) # 0}

\* text.replace(/### (.*?)\n(?!\n)/g, '### $1\n\n') from place p on: the
\* leftmost match is copied with one more newline, the search goes on after it.
RECURSIVE SpaceHeadings(_, _)
SpaceHeadings(text, p) ==
    LET starts == SpacingStarts(text, p)
    IN  IF starts = {} THEN SubSeq(text, p, Len(text))
        ELSE LET i == CHOOSE x \in starts : \A y \in starts : x <= y
                 n == SpacingMatchEnd(text, i)
             IN  SubSeq(text, p, n) \o <<"\n">> \o SpaceHeadings(text, n + 1)

\* The text renderMarkdown hands to ReactMarkdown.
renderMarkdown(text) == SpaceHeadings(RewriteBrackets(text), 1)

\* The texts a render of AssistantMessage hands to ReactMarkdown: the whole
\* message without a split, else the preamble (if not blank) and the
\* sections in the order of foundItems.
RenderedMarkdown(text, comparison) ==
    IF comparison.kind = "throw" THEN <<>>
    ELSE IF comparison.kind = "null" THEN <<renderMarkdown(text)>>
    ELSE (IF trim(comparison.generalContent) # <<>>
          THEN <<renderMarkdown(comparison.generalContent)>> ELSE <<>>)
         \o [e \in 1..Len(comparison.sections) |-> renderMarkdown(comparison.sections[e].value)]

(***************************************************************************)
(* Configuration: the item multi-select of the sidebar.                    *)
(***************************************************************************)
\* The options of the comparison type select.
ComparisonTypes == {"Location", "City", "Project"}

\* The mutant of the checked attribute: the box never shows as checked.
Checked_never(selected, item) == FALSE

\* checked={selectedItems.includes(item)}
Checked(selected, item) == indexOf(selected, item) # 0

\* disabled={!selectedItems.includes(item) && selectedItems.length >= 5}
Disabled(selected, item) == indexOf(selected, item) = 0 /\ Len(selected) >= 5

\* selectedItems.filter(i => i !== item)
Without(selected, item) == LET other(i) == i # item IN SelectSeq(selected, other)

\* The onChange handler of an item checkbox: the value it hands to
\* setSelectedItems (selected itself where it only alerts).
OnItemChange(selected, item, checked) ==
    IF checked
    THEN IF Len(selected) < 5 THEN Append(selected, item) ELSE selected
    ELSE Without(selected, item)

\* availableItems.filter(item =>
\*     item.toLowerCase().includes(searchTerm.toLowerCase()))
Filtered(available, term) ==
    LET shown(item) == includes(toLowerCase(item), toLowerCase(term))
    IN  SelectSeq(available, shown)

\* response.data.items || []
ItemsOf(response) == IF response.hasItems THEN response.items ELSE <<>>


(***************************************************************************)
(* AppContext and ChatInterface: the conversation.                         *)
(***************************************************************************)
\* null
Null == "null"

\* Math.max
Max(a, b) == IF a >= b THEN a ELSE b

\* One message of the conversation (the timestamp is not modelled).
Message(role, content, metadata) ==
    [role |-> role, content |-> content, metadata |-> metadata]

\* The default metadata = {} of addMessage: an object without fields.
EmptyMetadata == {}

\* The fields handleSubmit and onCorrection copy from a response.
AnswerMetadata ==
    {"mappingKeys", "selectedColumns", "columnsWithSources", "inputTokens",
     "outputTokens", "cached", "timeMessage"}

\* The mutant of clearChat: the messages stay.
clearChat_keep(prev) == prev

\* clearChat: setMessages([])
clearChat(prev) == <<>>

\* addMessage: prev => [...prev, { role, content, metadata, timestamp }]
addMessage(prev, role, content, metadata) ==
    Append(prev, Message(role, content, metadata))

\* userQuery.match(/and|\?|\n/gi): the matches from position i on, found
\* from left to right without overlap.
RECURSIVE Matches(_, _)
Matches(s, i) ==
    IF i > Len(s) THEN 0
    ELSE IF i + 2 <= Len(s) /\ toLowerCase(SubSeq(s, i, i + 2)) = <<"a", "n", "d">>
         THEN 1 + Matches(s, i + 3)
    ELSE IF s[i] \in {"?", "\n"} THEN 1 + Matches(s, i + 1)
    ELSE Matches(s, i + 1)

qCount(userQuery) == Matches(userQuery, 1) + 1

estimatedSeconds(userQuery, selItems, selCategories) ==
    Max(55, 10 + (Len(selItems) * 5) + (Len(selCategories) * 3)
                + (qCount(userQuery) * 10))

\* The mutant of the validation: a submit without a selected category
\* passes.
Rejection_noCategoryCheck(input, selItems, selCategories) ==
    IF trim(input) = <<>> THEN "empty"
    ELSE IF Len(selItems) = 0 THEN "items"
    ELSE "none"

\* The early returns of handleSubmit: which check rejects the submit.
Rejection(input, selItems, selCategories) ==
    IF trim(input) = <<>> THEN "empty"
    ELSE IF Len(selItems) = 0 THEN "items"
    ELSE IF Len(selCategories) = 0 THEN "categories"
    ELSE "none"

\* setCountdown(prev => prev <= 1 ? 0 : prev - 1)
Ticked(prev) == IF prev <= 1 THEN 0 ELSE prev - 1

\* '_Generating corrected response based on your feedback..._'
GeneratingText ==
    <<"_", "G", "e", "n", "e", "r", "a", "t", "i", "n", "g", " ", "c", "o",
      "r", "r", "e", "c", "t", "e", "d", " ", "r", "e", "s", "p", "o", "n",
      "s", "e", " ", "b", "a", "s", "e", "d", " ", "o", "n", " ", "y", "o",
      "u", "r", " ", "f", "e", "e", "d", "b", "a", "c", "k", ".", ".", ".",
      "_">>

\* 'An error occurred while processing your query.'
QueryErrorText ==
    <<"A", "n", " ", "e", "r", "r", "o", "r", " ", "o", "c", "c", "u", "r",
      "r", "e", "d", " ", "w", "h", "i", "l", "e", " ", "p", "r", "o", "c",
      "e", "s", "s", "i", "n", "g", " ", "y", "o", "u", "r", " ", "q", "u",
      "e", "r", "y", ".">>

\* 'Failed to generate corrected response.'
CorrectionErrorText ==
    <<"F", "a", "i", "l", "e", "d", " ", "t", "o", " ", "g", "e", "n", "e",
      "r", "a", "t", "e", " ", "c", "o", "r", "r", "e", "c", "t", "e", "d",
      " ", "r", "e", "s", "p", "o", "n", "s", "e", ".">>

\* messages[index - 1]?.content for the message at (1-based) position i.
QueryOf(msgs, i) == IF i > 1 THEN msgs[i - 1].content ELSE Undefined

\* message.role === 'assistant' renders an AssistantMessage, and
\* message.metadata && renders its FeedbackButtons: metadata is an object
\* for every message addMessage built, and an object is truthy.
OffersFeedback(message) == message.role = "assistant"

\* The state of a FeedbackButtons instance after its mount.
FreshButtons == [feedback |-> Null, loading |-> FALSE]

\* A list without its k-th entry.
Removed(list, k) == SubSeq(list, 1, k - 1) \o SubSeq(list, k + 1, Len(list))

\* The error of AppProvider when it is null (an error text is never empty).
NoError == <<>>

\* The alert dialogs.
NoAlert == <<>>

SelectItemAlert(type) == <<"Please select at least one ", type, " to analyze.">>

SelectCategoryAlert == <<"Please select at least one category to analyze.">>

ThankYouAlert == <<"Thank you for your feedback!">>

FeedbackFailedAlert == <<"Failed to submit feedback">>

(***************************************************************************)
(* The inputs of the model: texts made of at most MaxLines (MaxSplitLines) *)
(* lines of a pool, joined by "\n".                                        *)
(***************************************************************************)
\* "| City | Price |"
HeaderLine == <<"|", " ", "C", "i", "t", "y", " ", "|", " ", "P", "r", "i", "c", "e", " ", "|">>

\* "| --- | --- |"
DividerLine == <<"|", " ", "-", "-", "-", " ", "|", " ", "-", "-", "-", " ", "|">>

\* "| Pune | 5000 |"
PuneLine == <<"|", " ", "P", "u", "n", "e", " ", "|", " ", "5", "0", "0", "0", " ", "|">>

\* "| Mumbai | 9000 |"
MumbaiLine == <<"|", " ", "M", "u", "m", "b", "a", "i", " ", "|", " ", "9", "0", "0", "0", " ", "|">>

\* "| Pune | 5000 | extra |"
ExtraLine == <<"|", " ", "P", "u", "n", "e", " ", "|", " ", "5", "0", "0", "0", " ", "|", " ", "e", "x", "t", "r", "a", " ", "|">>

\* "| 0-10 | 1,200 |"
RangeLine == <<"|", " ", "0", "-", "1", "0", " ", "|", " ", "1", ",", "2", "0", "0", " ", "|">>

\* "| 10 - 20 | 7 | 2.5 |"
RangeLine3 == <<"|", " ", "1", "0", " ", "-", " ", "2", "0", " ", "|", " ", "7", " ", "|", " ", "2", ".", "5", " ", "|">>

\* " | A | x | 3 |"
LateNumberLine == <<" ", "|", " ", "A", " ", "|", " ", "x", " ", "|", " ", "3", " ", "|">>

\* "| 0-5 | n/a |"
RangeTextLine == <<"|", " ", "0", "-", "5", " ", "|", " ", "n", "/", "a", " ", "|">>

\* "|:--|--:|"
ColonDividerLine == <<"|", ":", "-", "-", "|", "-", "-", ":", "|">>

\* "| x"
UnbalancedLine == <<"|", " ", "x">>

\* "| Goa | 70 | -4.5 |"
TwoNumbersLine == <<"|", " ", "G", "o", "a", " ", "|", " ", "7", "0", " ", "|", " ", "-", "4", ".", "5", " ", "|">>

TableLinePool ==
    {HeaderLine, DividerLine, PuneLine, MumbaiLine,
     ExtraLine, RangeLine, RangeLine3, LateNumberLine,
     RangeTextLine, ColonDividerLine, UnbalancedLine, TwoNumbersLine}

\* Every sequence of at most n elements of the set pool.
SeqsUpTo(pool, n) == UNION {[1..k -> pool] : k \in 0..n}

\* "### Alpha"
AlphaHeading == <<"#", "#", "#", " ", "A", "l", "p", "h", "a">>

\* "### Beta"
BetaHeading == <<"#", "#", "#", " ", "B", "e", "t", "a">>

\* "foo"
FooLine == <<"f", "o", "o">>

\* "bar"
BarLine == <<"b", "a", "r">>

\* "[alpha]"
BracketHeading == <<"[", "a", "l", "p", "h", "a", "]">>

\* "**Beta** bar"
BoldLine == <<"*", "*", "B", "e", "t", "a", "*", "*", " ", "b", "a", "r">>

SplitLinePool ==
    {AlphaHeading, BetaHeading, FooLine, BarLine,
     BracketHeading, BoldLine, <<>>}

Alpha == <<"A", "l", "p", "h", "a">>

Beta == <<"B", "e", "t", "a">>

\* The item lists handed to parseComparisonContent: none (undefined), empty,
\* one item, two items.
ItemLists ==
    {[present |-> FALSE, list |-> <<>>],
     [present |-> TRUE, list |-> <<>>],
     [present |-> TRUE, list |-> <<Alpha>>],
     [present |-> TRUE, list |-> <<Alpha, Beta>>]}

\* "### 10"
TenHeading == <<"#", "#", "#", " ", "1", "0">>

\* "### 2"
TwoHeading == <<"#", "#", "#", " ", "2">>

\* "**Alpha** is cheaper"
BoldTrailingLine ==
    <<"*", "*", "A", "l", "p", "h", "a", "*", "*", " ",
      "i", "s", " ", "c", "h", "e", "a", "p", "e", "r">>

\* "[Alpha] and more"
BracketTrailingLine ==
    <<"[", "A", "l", "p", "h", "a", "]", " ", "a", "n", "d", " ", "m", "o", "r", "e">>

\* "[Beta**"
MixedMarkersLine == <<"[", "B", "e", "t", "a", "*", "*">>

\* "### Alphabet"
AlphabetHeading == <<"#", "#", "#", " ", "A", "l", "p", "h", "a", "b", "e", "t">>

\* "### Alph"
AlphHeading == <<"#", "#", "#", " ", "A", "l", "p", "h">>

\* "**  BETA  **"
UpperBoldHeading == <<"*", "*", " ", " ", "B", "E", "T", "A", " ", " ", "*", "*">>

Ten == <<"1", "0">>

Two == <<"2">>

\* The messages about named items, and those about items whose names are
\* numbers: an item list and the lines its texts are made of.
HeadingCases ==
    {[items |-> [present |-> TRUE, list |-> <<Alpha, Beta>>],
      pool  |-> {AlphaHeading, BetaHeading, FooLine, BoldTrailingLine,
                 BracketTrailingLine, MixedMarkersLine, AlphabetHeading,
                 AlphHeading, UpperBoldHeading}],
     [items |-> [present |-> TRUE, list |-> <<Ten, Two>>],
      pool  |-> {TenHeading, TwoHeading, FooLine}]}

\* "| x |"
StrayLine == <<"|", " ", "x", " ", "|">>

\* "| A | A |"
TwinLine == <<"|", " ", "A", " ", "|", " ", "A", " ", "|">>

\* The lines of the texts with several runs: pipe lines, two of them
\* dividers, and a line of plain text.
RunLinePool ==
    {HeaderLine, DividerLine, ColonDividerLine, StrayLine, TwinLine, FooLine}

\* "### A"
PlainHeading == <<"#", "#", "#", " ", "A">>

\* "[B]"
BracketLine == <<"[", "B", "]">>

\* "see ### b"
MidLineHashes == <<"s", "e", "e", " ", "#", "#", "#", " ", "b">>

\* "x"
TextLine == <<"x">>

\* The lines of the messages whose normalisation is looked at; the empty
\* line makes blank lines and, as last line, a final newline.
MarkdownLinePool == {PlainHeading, BracketLine, MidLineHashes, TextLine, <<>>}

Aundh == <<"A", "u", "n", "d", "h">>

Baner == <<"B", "a", "n", "e", "r">>

Kothrud == <<"K", "o", "t", "h", "r", "u", "d">>

Wakad == <<"W", "a", "k", "a", "d">>

Pashan == <<"P", "a", "s", "h", "a", "n">>

Hadapsar == <<"H", "a", "d", "a", "p", "s", "a", "r">>

Pune == <<"P", "u", "n", "e">>

Skyline == <<"S", "k", "y", "l", "i", "n", "e">>

\* What the items endpoint answers for a comparison type: six locations,
\* one city, a project list that names a project twice; or a body without
\* an items field.
Responses(type) ==
    {[hasItems |-> FALSE, items |-> <<>>],
     [hasItems |-> TRUE,
      items |-> CASE type = "Location" -> <<Aundh, Baner, Kothrud, Wakad, Pashan, Hadapsar>>
                  [] type = "City" -> <<Pune>>
                  [] type = "Project" -> <<Skyline, Skyline>>]}

\* What the user types into the search box: nothing, or "AN".
SearchTerms == {<<>>, <<"A", "N">>}

\* What the user types into the chat input: nothing, a blank, or " hi ".
InputTexts == {<<>>, <<" ">>, <<" ", "h", "i", " ">>}

\* The response_text the backend returns for a query: it names the query.
ResponseText(query) == <<"r", "e", ":", " ">> \o query

\* The selections the sidebar holds when the chat starts.
ChatSelections == {<<>>, <<Aundh>>}

ChatCategories == {<<>>, <<"All">>}

\* The categories the sidebar lists: getCategories returned "all" and
\* "price", shown with a capital first letter.
Categories == <<"All", "Price">>

\* The years the sidebar lists.
Years == <<2020, 2021, 2022, 2023, 2024>>

\* The options of the two provider selects.
Providers == {"OpenAI", "Google Gemini"}

(***************************************************************************)
(* State.                                                                  *)
(*   content, tableData, display, graphPhase: one GraphDisplay component - *)
(*     its content prop, the memoised parseMarkdownTable(content), what    *)
(*     its render returned, and whether it has rendered.                   *)
(*   msgContent, items, comparison, msgPhase: one AssistantMessage - the   *)
(*     message text, the item list, the memoised split, and whether it has *)
(*     rendered.                                                           *)
(*   markdown: the texts that render handed to ReactMarkdown.              *)
(*   comparisonType, selectedItems, availableItems, messages: the state    *)
(*     AppProvider holds for the configuration sidebar and the chat.       *)
(*   searchTerm, configLoading: the local state of Configuration (its      *)
(*     searchTerm and loading).                                            *)
(*   itemRequests: the getComparisonItems calls in flight, each with the   *)
(*     comparison type it was made for.                                    *)
(*   configPhase: whether Configuration is mounted.                        *)
(*   selectedCategories, selectedYears, mappingLLMProvider,                *)
(*     responseLLMProvider: the other settings AppProvider holds.          *)
(*   inputValue, estimatedTime, countdown: the local state of              *)
(*     ChatInterface; loading, error: the UI state AppProvider holds.      *)
(*   countdownIntervalRef: what countdownIntervalRef.current holds - null, *)
(*     the id of a running interval, or the id of a cleared one.           *)
(*   intervals: the number of running interval timers.                     *)
(*   queryRequests: the executeQuery calls in flight, each with the        *)
(*     handler that made it and its query.                                 *)
(*   chatPhase: whether ChatInterface is mounted.                          *)
(*   buttons: the local state (feedback, loading) of the FeedbackButtons   *)
(*     instance mounted for each message index.                            *)
(*   feedbackRequests: the submitFeedback calls in flight, each with the   *)
(*     message index, the feedback type and the query prop of the instance *)
(*     that made it, and whether that instance is still mounted.           *)
(*   alert: the text of the dialog the last step showed, "" if none.       *)
(***************************************************************************)
VARIABLES content, tableData, display, graphPhase,
          msgContent, items, comparison, markdown, msgPhase,
          comparisonType, selectedItems, availableItems, messages,
          searchTerm, configLoading, itemRequests, configPhase,
          selectedCategories, selectedYears, mappingLLMProvider, responseLLMProvider,
          inputValue, loading, error, estimatedTime, countdown,
          countdownIntervalRef, intervals, queryRequests, chatPhase,
          buttons, feedbackRequests, alert

graphVars == <<content, tableData, display, graphPhase>>

msgVars == <<msgContent, items, comparison, markdown, msgPhase>>

configVars == <<comparisonType, selectedItems, availableItems, messages,
                searchTerm, configLoading, itemRequests, configPhase>>

settingsVars == <<selectedCategories, selectedYears, mappingLLMProvider, responseLLMProvider>>

chatVars == <<inputValue, loading, error, estimatedTime, countdown,
              countdownIntervalRef, intervals, queryRequests, chatPhase>>

feedbackVars == <<buttons, feedbackRequests>>

vars == <<content, tableData, display, graphPhase,
          msgContent, items, comparison, markdown, msgPhase,
          comparisonType, selectedItems, availableItems, messages,
          searchTerm, configLoading, itemRequests, configPhase,
          selectedCategories, selectedYears, mappingLLMProvider, responseLLMProvider,
          inputValue, loading, error, estimatedTime, countdown,
          countdownIntervalRef, intervals, queryRequests, chatPhase,
          buttons, feedbackRequests, alert>>

\* No GraphDisplay is mounted.
GraphIdle ==
    /\ content = <<>>
    /\ tableData = NoTable
    /\ display = RenderNull
    /\ graphPhase = "unmounted"

\* No AssistantMessage is mounted.
MsgIdle ==
    /\ msgContent = <<>>
    /\ items = [present |-> TRUE, list |-> <<>>]
    /\ comparison = NoSplit
    /\ markdown = <<>>
    /\ msgPhase = "unmounted"

\* The initial values of the useState hooks of AppProvider and Configuration.
ConfigDefaults ==
    /\ comparisonType = "Location"
    /\ selectedItems = <<>>
    /\ availableItems = <<>>
    /\ messages = <<>>
    /\ searchTerm = <<>>
    /\ configLoading = FALSE
    /\ itemRequests = [type \in ComparisonTypes |-> 0]

\* No Configuration is mounted.
ConfigIdle == ConfigDefaults /\ configPhase = "unmounted"

\* The initial values of the other settings of AppProvider.
SettingsDefaults ==
    /\ selectedCategories = <<"All">>
    /\ selectedYears = <<2020, 2021, 2022, 2023, 2024>>
    /\ mappingLLMProvider = "OpenAI"
    /\ responseLLMProvider = "OpenAI"

\* The initial values of the useState and useRef hooks of ChatInterface and
\* of the UI state of AppProvider; nothing is in flight, no dialog is shown.
ChatDefaults ==
    /\ inputValue = <<>>
    /\ loading = FALSE
    /\ error = NoError
    /\ estimatedTime = 0
    /\ countdown = 0
    /\ countdownIntervalRef = Null
    /\ intervals = 0
    /\ queryRequests = <<>>
    /\ buttons = <<>>
    /\ feedbackRequests = <<>>
    /\ alert = NoAlert

\* No ChatInterface is mounted.
ChatIdle == SettingsDefaults /\ ChatDefaults /\ chatPhase = "unmounted"

\* A render of ChatInterface: AssistantMessage is a component defined in
\* the body of ChatInterface, so each render makes a new component type and
\* React unmounts every AssistantMessage with its FeedbackButtons and mounts
\* new ones, whose state is the initial one. ChatInterface renders whenever
\* its own state or a value of AppProvider changes.
Rerendered(msgs) ==
    /\ buttons' = [i \in 1..Len(msgs) |-> FreshButtons]
    /\ feedbackRequests' =
          [k \in 1..Len(feedbackRequests) |-> [feedbackRequests[k] EXCEPT !.live = FALSE]]

\* A GraphDisplay is created with a content prop and has not rendered yet.
InitTable ==
    /\ \E ls \in SeqsUpTo(TableLinePool, MaxLines) : content = join(ls, "\n")
    /\ tableData = NoTable
    /\ display = RenderNull
    /\ graphPhase = "mounting"
    /\ MsgIdle
    /\ ConfigIdle
    /\ ChatIdle

\* The render of GraphDisplay: useMemo runs parseMarkdownTable(content), the
\* body builds the charts; a TypeError raised by the parse ends the render.
GraphDisplayRender ==
    /\ graphPhase = "mounting"
    /\ tableData' = parseMarkdownTable(content)
    /\ display' = GraphDisplay(tableData')
    /\ graphPhase' = "rendered"
    /\ UNCHANGED <<content, msgVars, configVars, settingsVars, chatVars, feedbackVars, alert>>

NextTable == GraphDisplayRender

SpecTable == InitTable /\ [][NextTable]_vars

\* A GraphDisplay is created for a text with several runs of pipe lines.
InitRuns ==
    /\ \E ls \in SeqsUpTo(RunLinePool, MaxRunLines) : content = join(ls, "\n")
    /\ tableData = NoTable
    /\ display = RenderNull
    /\ graphPhase = "mounting"
    /\ MsgIdle
    /\ ConfigIdle
    /\ ChatIdle

SpecRuns == InitRuns /\ [][NextTable]_vars

\* An AssistantMessage is created for a message and has not rendered yet.
InitSplit ==
    \* a text ends with a line terminator or not
    /\ \E ls \in SeqsUpTo(SplitLinePool, MaxSplitLines), tail \in {<<>>, <<"\n">>} :
          msgContent = join(ls, "\n") \o tail
    /\ items \in ItemLists
    /\ comparison = NoSplit
    /\ markdown = <<>>
    /\ msgPhase = "mounting"
    /\ GraphIdle
    /\ ConfigIdle
    /\ ChatIdle

\* The render of AssistantMessage: useMemo runs parseComparisonContent, the
\* body hands the normalised texts to ReactMarkdown.
AssistantMessageRender ==
    /\ msgPhase = "mounting"
    /\ comparison' = parseComparisonContent(msgContent, items)
    /\ markdown' = RenderedMarkdown(msgContent, comparison')
    /\ msgPhase' = "rendered"
    /\ UNCHANGED <<msgContent, items, graphVars, configVars, settingsVars, chatVars,
                   feedbackVars, alert>>

NextSplit == AssistantMessageRender

SpecSplit == InitSplit /\ [][NextSplit]_vars

\* An AssistantMessage is created for a message about named or numbered
\* items and has not rendered yet.
InitHeadings ==
    /\ \E c \in HeadingCases :
          /\ items = c.items
          /\ \E ls \in SeqsUpTo(c.pool, MaxHeadingLines) : msgContent = join(ls, "\n")
    /\ comparison = NoSplit
    /\ markdown = <<>>
    /\ msgPhase = "mounting"
    /\ GraphIdle
    /\ ConfigIdle
    /\ ChatIdle

SpecHeadings == InitHeadings /\ [][NextSplit]_vars

\* An AssistantMessage is created for a message while no item is selected:
\* there is no split and the whole message is rendered.
InitMarkdown ==
    /\ \E ls \in SeqsUpTo(MarkdownLinePool, MaxMarkdownLines) : msgContent = join(ls, "\n")
    /\ items = [present |-> TRUE, list |-> <<>>]
    /\ comparison = NoSplit
    /\ markdown = <<>>
    /\ msgPhase = "mounting"
    /\ GraphIdle
    /\ ConfigIdle
    /\ ChatIdle

SpecMarkdown == InitMarkdown /\ [][NextSplit]_vars

\* Configuration is created: every useState hook holds its initial value
\* and no effect has run yet.
InitConfig ==
    /\ ConfigDefaults
    /\ configPhase = "mounting"
    /\ GraphIdle
    /\ MsgIdle
    /\ ChatIdle

\* The number of getComparisonItems calls in flight.
InFlight == itemRequests["Location"] + itemRequests["City"] + itemRequests["Project"]

\* The effect on [comparisonType]: the selection and the search are cleared
\* and loadItems starts - loading is set and the request goes out.
LoadItemsEffect(type) ==
    /\ selectedItems' = <<>>
    /\ searchTerm' = <<>>
    /\ configLoading' = TRUE
    /\ itemRequests' = [itemRequests EXCEPT ![type] = @ + 1]

\* The first commit of Configuration: the effect runs for the initial type.
ConfigurationMount ==
    /\ configPhase = "mounting"
    /\ LoadItemsEffect(comparisonType)
    /\ configPhase' = "mounted"
    /\ UNCHANGED <<comparisonType, availableItems, messages, graphVars, msgVars,
                   settingsVars, chatVars>>
    /\ Rerendered(messages')
    /\ alert' = NoAlert

\* onChange of the comparison type select, and the effect its re-render
\* runs.
ComparisonTypeChange ==
    /\ configPhase = "mounted"
    /\ InFlight < MaxRequests
    /\ \E value \in ComparisonTypes \ {comparisonType} :
          /\ comparisonType' = value
          /\ messages' = clearChat(messages)
          /\ LoadItemsEffect(value)
    /\ UNCHANGED <<availableItems, configPhase, graphVars, msgVars,
                   settingsVars, chatVars>>
    /\ Rerendered(messages')
    /\ alert' = NoAlert

\* A getComparisonItems call resolves: its items replace availableItems,
\* then finally clears loading.
ItemsLoaded ==
    /\ \E type \in ComparisonTypes :
          /\ itemRequests[type] > 0
          /\ itemRequests' = [itemRequests EXCEPT ![type] = @ - 1]
          /\ \E response \in Responses(type) : availableItems' = ItemsOf(response)
    /\ configLoading' = FALSE
    /\ UNCHANGED <<comparisonType, selectedItems, messages, searchTerm, configPhase,
                   graphVars, msgVars,
                   settingsVars, chatVars>>
    /\ Rerendered(messages')
    /\ alert' = NoAlert

\* A getComparisonItems call rejects: the error is logged, finally clears
\* loading.
ItemsLoadFailed ==
    /\ \E type \in ComparisonTypes :
          /\ itemRequests[type] > 0
          /\ itemRequests' = [itemRequests EXCEPT ![type] = @ - 1]
    /\ configLoading' = FALSE
    /\ UNCHANGED <<comparisonType, selectedItems, availableItems, messages, searchTerm,
                   configPhase, graphVars, msgVars,
                   settingsVars, chatVars>>
    /\ UNCHANGED feedbackVars
    /\ alert' = NoAlert

\* onChange of the search box.
SearchChange ==
    /\ configPhase = "mounted"
    /\ \E term \in SearchTerms \ {searchTerm} : searchTerm' = term
    /\ UNCHANGED <<comparisonType, selectedItems, availableItems, messages, configLoading,
                   itemRequests, configPhase, graphVars, msgVars,
                   settingsVars, chatVars>>
    /\ UNCHANGED feedbackVars
    /\ alert' = NoAlert

\* A click on the checkbox of a listed item: the list is rendered when
\* loading is false, a disabled box takes no click, and the event carries
\* the opposite of the box's checked attribute.
ItemCheckboxChange ==
    /\ configPhase = "mounted"
    /\ ~configLoading
    /\ \E i \in 1..Len(Filtered(availableItems, searchTerm)) :
          LET item == Filtered(availableItems, searchTerm)[i]
          IN  /\ ~Disabled(selectedItems, item)
              /\ selectedItems' =
                    OnItemChange(selectedItems, item, ~Checked(selectedItems, item))
    /\ UNCHANGED <<comparisonType, availableItems, messages, searchTerm, configLoading,
                   itemRequests, configPhase, graphVars, msgVars,
                   settingsVars, chatVars>>
    /\ Rerendered(messages')
    /\ alert' = NoAlert

\* A click on the remove button of a chip.
ChipRemove ==
    /\ configPhase = "mounted"
    /\ \E i \in 1..Len(selectedItems) :
          selectedItems' = Without(selectedItems, selectedItems[i])
    /\ UNCHANGED <<comparisonType, availableItems, messages, searchTerm, configLoading,
                   itemRequests, configPhase, graphVars, msgVars,
                   settingsVars, chatVars>>
    /\ Rerendered(messages')
    /\ alert' = NoAlert

NextConfig ==
    \/ ConfigurationMount
    \/ ComparisonTypeChange
    \/ ItemsLoaded
    \/ ItemsLoadFailed
    \/ SearchChange
    \/ ItemCheckboxChange
    \/ ChipRemove

SpecConfig == InitConfig /\ [][NextConfig]_vars

\* The same sidebar while the backend answers every getComparisonItems
\* call: no load fails.
NextLoads ==
    \/ ConfigurationMount
    \/ ComparisonTypeChange
    \/ ItemsLoaded
    \/ SearchChange
    \/ ItemCheckboxChange
    \/ ChipRemove

SpecLoads == InitConfig /\ [][NextLoads]_vars

(***************************************************************************)
(* ChatInterface, its FeedbackButtons, and the sidebar's type select.      *)
(***************************************************************************)
\* ChatInterface and Configuration are mounted, the locations are loaded,
\* and the user has selected items and categories in the sidebar, or none.
InitChat ==
    /\ comparisonType = "Location"
    /\ availableItems = <<Aundh, Baner, Kothrud, Wakad, Pashan, Hadapsar>>
    /\ selectedItems \in ChatSelections
    /\ messages = <<>>
    /\ searchTerm = <<>>
    /\ configLoading = FALSE
    /\ itemRequests = [type \in ComparisonTypes |-> 0]
    /\ configPhase = "mounted"
    /\ selectedCategories \in ChatCategories
    /\ selectedYears = <<2020, 2021, 2022, 2023, 2024>>
    /\ mappingLLMProvider = "OpenAI"
    /\ responseLLMProvider = "OpenAI"
    /\ ChatDefaults
    /\ chatPhase = "mounted"
    /\ GraphIdle
    /\ MsgIdle

\* The positions of the user messages, of the correction placeholders, and
\* of the messages that show an acknowledgement.
UserMessages == {i \in 1..Len(messages) : messages[i].role = "user"}

Placeholders == {i \in 1..Len(messages) : messages[i].content = GeneratingText}

Rated == {i \in 1..Len(buttons) : buttons[i].feedback # Null}

\* onChange of the chat input; the input is disabled while loading.
InputChange ==
    /\ chatPhase = "mounted"
    /\ ~loading
    /\ \E value \in InputTexts \ {inputValue} : inputValue' = value
    /\ Rerendered(messages)
    /\ alert' = NoAlert
    /\ UNCHANGED <<loading, error, estimatedTime, countdown, countdownIntervalRef,
                   intervals, queryRequests, chatPhase, settingsVars, configVars,
                   graphVars, msgVars>>

\* handleSubmit up to its await. The form's controls are disabled while
\* loading, so no submit event arrives then.
handleSubmit ==
    /\ chatPhase = "mounted"
    /\ ~loading
    /\ \/ /\ Rejection(inputValue, selectedItems, selectedCategories) = "empty"
          /\ alert' = NoAlert
          /\ UNCHANGED <<inputValue, messages, loading, error, estimatedTime, countdown,
                         countdownIntervalRef, intervals, queryRequests, feedbackVars>>
       \/ /\ Rejection(inputValue, selectedItems, selectedCategories) = "items"
          /\ alert' = SelectItemAlert(comparisonType)
          /\ UNCHANGED <<inputValue, messages, loading, error, estimatedTime, countdown,
                         countdownIntervalRef, intervals, queryRequests, feedbackVars>>
       \/ /\ Rejection(inputValue, selectedItems, selectedCategories) = "categories"
          /\ alert' = SelectCategoryAlert
          /\ UNCHANGED <<inputValue, messages, loading, error, estimatedTime, countdown,
                         countdownIntervalRef, intervals, queryRequests, feedbackVars>>
       \/ /\ Rejection(inputValue, selectedItems, selectedCategories) = "none"
          /\ Cardinality(UserMessages) < MaxSubmits
          /\ inputValue' = <<>>
          /\ messages' = addMessage(messages, "user", trim(inputValue), EmptyMetadata)
          /\ loading' = TRUE
          /\ error' = NoError
          /\ estimatedTime' =
                estimatedSeconds(trim(inputValue), selectedItems, selectedCategories)
          /\ countdown' = estimatedTime'
          /\ intervals' = intervals + 1
          /\ countdownIntervalRef' = "running"
          /\ queryRequests' =
                Append(queryRequests, [origin |-> "handleSubmit", query |-> trim(inputValue)])
          /\ Rerendered(messages')
          /\ alert' = NoAlert
    /\ UNCHANGED <<comparisonType, selectedItems, availableItems, searchTerm,
                   configLoading, itemRequests, configPhase, chatPhase, settingsVars,
                   graphVars, msgVars>>

\* The mutant of the finally block: loading is left as it is.
SubmitFinally_keepLoading ==
    /\ loading' = loading
    /\ estimatedTime' = 0
    /\ countdown' = 0
    /\ intervals' = IF countdownIntervalRef = "running" THEN intervals - 1 ELSE intervals
    /\ countdownIntervalRef' =
          IF countdownIntervalRef = "running" THEN "cleared" ELSE countdownIntervalRef

\* The finally block of handleSubmit: clearInterval on the id the ref holds
\* now; the ref keeps the id.
SubmitFinally ==
    /\ loading' = FALSE
    /\ estimatedTime' = 0
    /\ countdown' = 0
    /\ intervals' = IF countdownIntervalRef = "running" THEN intervals - 1 ELSE intervals
    /\ countdownIntervalRef' =
          IF countdownIntervalRef = "running" THEN "cleared" ELSE countdownIntervalRef

\* The executeQuery call of a handleSubmit resolves: the rest of the try
\* block, then finally.
SubmitResolved ==
    /\ \E k \in 1..Len(queryRequests) :
          /\ queryRequests[k].origin = "handleSubmit"
          /\ messages' = addMessage(messages, "assistant",
                                    ResponseText(queryRequests[k].query), AnswerMetadata)
          /\ queryRequests' = Removed(queryRequests, k)
    /\ SubmitFinally
    /\ Rerendered(messages')
    /\ alert' = NoAlert
    /\ UNCHANGED <<inputValue, error, chatPhase, comparisonType, selectedItems,
                   availableItems, searchTerm, configLoading, itemRequests, configPhase,
                   settingsVars, graphVars, msgVars>>

\* The executeQuery call of a handleSubmit rejects: catch, then finally.
SubmitRejected ==
    /\ \E k \in 1..Len(queryRequests) :
          /\ queryRequests[k].origin = "handleSubmit"
          /\ queryRequests' = Removed(queryRequests, k)
    /\ error' = QueryErrorText
    /\ messages' = addMessage(messages, "error", QueryErrorText, EmptyMetadata)
    /\ SubmitFinally
    /\ Rerendered(messages')
    /\ alert' = NoAlert
    /\ UNCHANGED <<inputValue, chatPhase, comparisonType, selectedItems,
                   availableItems, searchTerm, configLoading, itemRequests, configPhase,
                   settingsVars, graphVars, msgVars>>

\* A running interval fires: setCountdown(prev => prev <= 1 ? 0 : prev - 1);
\* ChatInterface renders when the value changed.
CountdownTick ==
    /\ intervals > 0
    /\ countdown' = Ticked(countdown)
    /\ IF countdown' # countdown THEN Rerendered(messages) ELSE UNCHANGED feedbackVars
    /\ alert' = NoAlert
    /\ UNCHANGED <<inputValue, loading, error, estimatedTime, countdownIntervalRef,
                   intervals, queryRequests, chatPhase, settingsVars, configVars,
                   graphVars, msgVars>>

\* A click on a thumbs button: handleFeedback up to its await. The buttons
\* are rendered while feedback is null and are disabled while loading.
handleFeedback ==
    /\ chatPhase = "mounted"
    /\ Len(feedbackRequests) < MaxFeedbackRequests
    /\ Cardinality(Rated) < MaxRated
    /\ \E i \in 1..Len(messages), type \in {"up", "down"} :
          /\ OffersFeedback(messages[i])
          /\ buttons[i].feedback = Null
          /\ ~buttons[i].loading
          /\ buttons' = [buttons EXCEPT ![i].loading = TRUE]
          /\ feedbackRequests' =
                Append(feedbackRequests,
                       [index |-> i, type |-> type, query |-> QueryOf(messages, i),
                        live |-> TRUE])
    /\ alert' = NoAlert
    /\ UNCHANGED <<chatVars, settingsVars, configVars, graphVars, msgVars>>

\* setFeedback(type) and the setLoading(false) of finally, on the instance
\* that made the call: a state update of an unmounted instance is dropped.
FeedbackSettled(request, type) ==
    IF request.live
    THEN [buttons EXCEPT ![request.index] = [feedback |-> type, loading |-> FALSE]]
    ELSE buttons

\* A submitFeedback call resolves without a correction: 'up', or 'down' with
\* a response that carries no new_mapping_keys.
FeedbackResolved ==
    /\ \E k \in 1..Len(feedbackRequests) :
          /\ buttons' = FeedbackSettled(feedbackRequests[k], feedbackRequests[k].type)
          /\ feedbackRequests' = Removed(feedbackRequests, k)
          /\ alert' = IF feedbackRequests[k].type = "up" THEN ThankYouAlert ELSE NoAlert
    /\ UNCHANGED <<chatVars, settingsVars, configVars, graphVars, msgVars>>

\* A submitFeedback call for 'down' resolves with new_mapping_keys:
\* onCorrection of the render that mounted the instance runs - placeholder,
\* setLoading(true), executeQuery with the query of that render.
CorrectionStarted ==
    /\ Cardinality(Placeholders) < MaxCorrections
    /\ \E k \in 1..Len(feedbackRequests) :
          /\ feedbackRequests[k].type = "down"
          /\ queryRequests' =
                Append(queryRequests,
                       [origin |-> "onCorrection", query |-> feedbackRequests[k].query])
          /\ messages' = addMessage(messages, "assistant", GeneratingText, EmptyMetadata)
          /\ buttons' = [i \in 1..Len(messages') |-> FreshButtons]
          /\ feedbackRequests' =
                [j \in 1..(Len(feedbackRequests) - 1) |->
                    [Removed(feedbackRequests, k)[j] EXCEPT !.live = FALSE]]
    /\ loading' = TRUE
    /\ alert' = NoAlert
    /\ UNCHANGED <<inputValue, error, estimatedTime, countdown, countdownIntervalRef,
                   intervals, chatPhase, comparisonType, selectedItems, availableItems,
                   searchTerm, configLoading, itemRequests, configPhase, settingsVars,
                   graphVars, msgVars>>

\* A submitFeedback call rejects: catch, then finally.
FeedbackRejected ==
    /\ \E k \in 1..Len(feedbackRequests) :
          /\ buttons' = FeedbackSettled(feedbackRequests[k], Null)
          /\ feedbackRequests' = Removed(feedbackRequests, k)
    /\ alert' = FeedbackFailedAlert
    /\ UNCHANGED <<chatVars, settingsVars, configVars, graphVars, msgVars>>

\* The executeQuery call of an onCorrection resolves: then, finally.
CorrectionResolved ==
    /\ \E k \in 1..Len(queryRequests) :
          /\ queryRequests[k].origin = "onCorrection"
          /\ messages' = addMessage(messages, "assistant",
                                    ResponseText(queryRequests[k].query), AnswerMetadata)
          /\ queryRequests' = Removed(queryRequests, k)
    /\ loading' = FALSE
    /\ Rerendered(messages')
    /\ alert' = NoAlert
    /\ UNCHANGED <<inputValue, error, estimatedTime, countdown, countdownIntervalRef,
                   intervals, chatPhase, comparisonType, selectedItems, availableItems,
                   searchTerm, configLoading, itemRequests, configPhase, settingsVars,
                   graphVars, msgVars>>

\* The executeQuery call of an onCorrection rejects: catch, finally.
CorrectionRejected ==
    /\ \E k \in 1..Len(queryRequests) :
          /\ queryRequests[k].origin = "onCorrection"
          /\ queryRequests' = Removed(queryRequests, k)
    /\ messages' = addMessage(messages, "error", CorrectionErrorText, EmptyMetadata)
    /\ loading' = FALSE
    /\ Rerendered(messages')
    /\ alert' = NoAlert
    /\ UNCHANGED <<inputValue, error, estimatedTime, countdown, countdownIntervalRef,
                   intervals, chatPhase, comparisonType, selectedItems, availableItems,
                   searchTerm, configLoading, itemRequests, configPhase, settingsVars,
                   graphVars, msgVars>>

\* The chat without feedback: typing, submits, their replies, the countdown,
\* and a change of the comparison type in the sidebar.
NextChat ==
    \/ InputChange
    \/ handleSubmit
    \/ SubmitResolved
    \/ SubmitRejected
    \/ CountdownTick
    \/ ComparisonTypeChange

SpecChat == InitChat /\ [][NextChat]_vars

\* The same chat when every executeQuery call of a submit settles: the
\* promise resolves or rejects.
SpecChatFair == SpecChat /\ WF_vars(SubmitResolved \/ SubmitRejected)

\* The chat with feedback and corrections, every reply arriving before the
\* interval fires.
NextFeedback ==
    \/ InputChange
    \/ handleSubmit
    \/ SubmitResolved
    \/ SubmitRejected
    \/ handleFeedback
    \/ FeedbackResolved
    \/ CorrectionStarted
    \/ FeedbackRejected
    \/ CorrectionResolved
    \/ CorrectionRejected
    \/ ComparisonTypeChange

SpecFeedback == InitChat /\ [][NextFeedback]_vars

(***************************************************************************)
(* Configuration: the categories, the years and the providers.             *)
(***************************************************************************)
\* The sidebar and the chat are mounted, the locations are loaded, one is
\* selected, and the conversation holds a question and its answer.
InitSettings ==
    /\ comparisonType = "Location"
    /\ availableItems = <<Aundh, Baner, Kothrud, Wakad, Pashan, Hadapsar>>
    /\ selectedItems = <<Aundh>>
    /\ messages = << Message("user", <<"h", "i">>, EmptyMetadata),
                     Message("assistant", ResponseText(<<"h", "i">>), AnswerMetadata) >>
    /\ searchTerm = <<>>
    /\ configLoading = FALSE
    /\ itemRequests = [type \in ComparisonTypes |-> 0]
    /\ configPhase = "mounted"
    /\ SettingsDefaults
    /\ inputValue = <<>>
    /\ loading = FALSE
    /\ error = NoError
    /\ estimatedTime = 0
    /\ countdown = 0
    /\ countdownIntervalRef = "cleared"
    /\ intervals = 0
    /\ queryRequests = <<>>
    /\ buttons = [i \in 1..2 |-> FreshButtons]
    /\ feedbackRequests = <<>>
    /\ alert = NoAlert
    /\ chatPhase = "mounted"
    /\ GraphIdle
    /\ MsgIdle

\* onChange of a checkbox (category or year): the value is appended when
\* the box gets checked and filtered out when it gets unchecked; the box
\* shows whether the selection includes the value.
Toggled(selected, value) ==
    IF \E i \in 1..Len(selected) : selected[i] = value
    THEN Without(selected, value)
    ELSE Append(selected, value)

\* A click on the checkbox of a category.
CategoryCheckboxChange ==
    /\ configPhase = "mounted"
    /\ \E i \in 1..Len(Categories) :
          selectedCategories' = Toggled(selectedCategories, Categories[i])
    /\ Rerendered(messages)
    /\ alert' = NoAlert
    /\ UNCHANGED <<selectedYears, mappingLLMProvider, responseLLMProvider, chatVars,
                   configVars, graphVars, msgVars>>

\* A click on the checkbox of a year; the years are listed unless the
\* comparison type is Project.
YearCheckboxChange ==
    /\ configPhase = "mounted"
    /\ comparisonType # "Project"
    /\ \E i \in 1..Len(Years) : selectedYears' = Toggled(selectedYears, Years[i])
    /\ Rerendered(messages)
    /\ alert' = NoAlert
    /\ UNCHANGED <<selectedCategories, mappingLLMProvider, responseLLMProvider, chatVars,
                   configVars, graphVars, msgVars>>

\* onChange of the mapping provider select.
MappingProviderChange ==
    /\ configPhase = "mounted"
    /\ \E value \in Providers \ {mappingLLMProvider} : mappingLLMProvider' = value
    /\ Rerendered(messages)
    /\ alert' = NoAlert
    /\ UNCHANGED <<selectedCategories, selectedYears, responseLLMProvider, chatVars,
                   configVars, graphVars, msgVars>>

\* onChange of the response provider select.
ResponseProviderChange ==
    /\ configPhase = "mounted"
    /\ \E value \in Providers \ {responseLLMProvider} : responseLLMProvider' = value
    /\ Rerendered(messages)
    /\ alert' = NoAlert
    /\ UNCHANGED <<selectedCategories, selectedYears, mappingLLMProvider, chatVars,
                   configVars, graphVars, msgVars>>

NextSettings ==
    \/ ComparisonTypeChange
    \/ CategoryCheckboxChange
    \/ YearCheckboxChange
    \/ MappingProviderChange
    \/ ResponseProviderChange

SpecSettings == InitSettings /\ [][NextSettings]_vars

(***************************************************************************)
(* Properties of the table extractor and the chart selector (SpecTable).   *)
(***************************************************************************)
Rendered == graphPhase = "rendered"

\* The lines of the content prop.
ContentLines == split(content, "\n")

\* The indices of the first maximal run of pipe lines of a text.
FirstRun(lines) ==
    LET pipe == {i \in 1..Len(lines) : IsPipeLine(lines[i])}
    IN  {i \in pipe : \A j \in 1..i : j \in pipe \/ \A k \in 1..j : k \notin pipe}

\* A table came out of the extractor: parseMarkdownTable returned one and
\* the component's empty-data check let it pass.
Extracted == Rendered /\ tableData.kind = "table" /\ Len(tableData.data) > 0

\* The columns (1-based, from 2) all of whose cells parse as a number.
NumericCols ==
    {c \in 2..Len(tableData.headers) :
        \A r \in 1..Len(tableData.data) : ~isNaN(CellNumber(tableData.data[r], c))}

AllLabelsRange == \A r \in 1..Len(tableData.data) : isRange(LabelOf(tableData.data[r]))

NoLabelRange == \A r \in 1..Len(tableData.data) : ~isRange(LabelOf(tableData.data[r]))

\* The chart types of the render, in order.
ChartTypes == [i \in 1..Len(display.charts) |-> display.charts[i].type]

HasChart(type) == \E i \in 1..Len(display.charts) : display.charts[i].type = type

\* C1 (as claimed): no render of GraphDisplay raises an exception, whatever
\* the content: the extractor returns a table or null.
C1_NeverThrows == Rendered => tableData.kind # "throw" /\ display.kind # "throw"

\* C2: a content without a pipe line, or whose first run of pipe lines has 2
\* or fewer lines, gives null ("no table").
C2_ShortRunIsNoTable ==
    Rendered /\ Cardinality(FirstRun(ContentLines)) <= 2
        => tableData.kind = "null" /\ display.kind = "null"

C2_Witness ==
    /\ Rendered
    /\ Cardinality(FirstRun(ContentLines)) = 2
    /\ Len(ContentLines) = 4
    /\ tableData.kind = "null"

\* The cells of the run's lines after the divider, in order.
RunCells ==
    LET run   == FirstRun(ContentLines)
        first == CHOOSE i \in run : \A j \in run : i <= j
        div   == CHOOSE i \in run : IsDivider(ContentLines[i]) /\
                    \A j \in run : j < i => ~IsDivider(ContentLines[j])
    IN  [k \in 1..(first + Cardinality(run) - 1 - div) |-> Cells(ContentLines[div + k])]

FitsHeaders(row) == Len(row) = Len(tableData.headers)

\* C3: every row of a returned table has headers.length cells; the rows are
\* the lines after the divider whose cell count equals headers.length, in
\* their order in the text, the others being dropped.
C3_RowsMatchHeaders ==
    Rendered /\ tableData.kind = "table"
        => /\ \A r \in 1..Len(tableData.data) :
                Len(tableData.data[r]) = Len(tableData.headers)
           /\ tableData.data = SelectSeq(RunCells, FitsHeaders)
           /\ display.kind # "throw"

C3_Witness ==
    /\ Rendered /\ tableData.kind = "table"
    /\ Len(tableData.data) = 1
    /\ Len(RunCells) = 2
    /\ ~FitsHeaders(RunCells[1])

\* C4: a two-column table with N rows, a numeric second column and no
\* range-like label gives the charts bar, line, pie, doughnut, in this order,
\* each numeric series with N points.
C4_TwoColumnFourCharts ==
    Extracted /\ Len(tableData.headers) = 2 /\ NumericCols = {2} /\ NoLabelRange
        => /\ display.kind = "charts"
           /\ ChartTypes = <<"bar", "line", "pie", "doughnut">>
           /\ \A i \in 1..4 : \A d \in 1..Len(display.charts[i].data.datasets) :
                Len(display.charts[i].data.datasets[d].data) = Len(tableData.data)
           /\ \A i \in 1..4 : Len(display.charts[i].data.datasets) = 1

C4_Witness ==
    /\ Extracted /\ Len(tableData.headers) = 2 /\ NumericCols = {2} /\ NoLabelRange
    /\ Len(tableData.data) = 2
    /\ Len(display.charts) = 4

\* C5 (as claimed): with every label of the form a-b the render always has a
\* bar chart, a scatter chart iff there are 2 or more numeric columns, and no
\* line, pie or doughnut chart.
C5_RangeAlwaysBar ==
    Extracted /\ AllLabelsRange
        => /\ HasRangeLabels(Labels(tableData.data))
           /\ display.kind = "charts"
           /\ HasChart("bar")
           /\ (HasChart("scatter") <=> Cardinality(NumericCols) >= 2)
           /\ ~HasChart("line") /\ ~HasChart("pie") /\ ~HasChart("doughnut")

\* C5 (amended): with every label of the form a-b (a, b strings of digits)
\* the label shape is Range; with no numeric column there is no chart at all,
\* otherwise the charts are a bar chart, followed by a scatter chart iff there
\* are 2 or more numeric columns, and nothing else.
C5_RangeBarIfNumeric ==
    Extracted /\ AllLabelsRange
        => /\ HasRangeLabels(Labels(tableData.data))
           /\ (NumericCols = {} => display.kind = "null")
           /\ (Cardinality(NumericCols) = 1
                => display.kind = "charts" /\ ChartTypes = <<"bar">>)
           /\ (Cardinality(NumericCols) >= 2
                => display.kind = "charts" /\ ChartTypes = <<"bar", "scatter">>)

C5_Witness ==
    /\ Extracted /\ AllLabelsRange
    /\ Cardinality(NumericCols) = 2
    /\ HasChart("scatter")

\* C6: a table without a numeric column gives no chart, a table with one
\* gives at least one chart.
C6_ChartsIffNumeric ==
    Extracted
        => /\ (NumericCols = {} => display.kind = "null" /\ display.charts = <<>>)
           /\ (NumericCols # {} => display.kind = "charts" /\ Len(display.charts) >= 1)

C6_Witness ==
    /\ Extracted
    /\ NumericCols = {}
    /\ Len(tableData.headers) >= 2
    /\ display.kind = "null"

\* "| City | Price |", "| --- | --- |", "| Pune | 5000 |", "| Mumbai | 9000 |"
CityPriceTable == join(<<HeaderLine, DividerLine, PuneLine, MumbaiLine>>, "\n")

\* The values of column c, one per row, in row order.
ColumnValues(c) == [r \in 1..Len(tableData.data) |-> CellNumber(tableData.data[r], c)]

\* C7: in the continuous case the pie and the doughnut chart hold the values
\* of the lowest-index numeric column, one per row in row order, labelled by
\* the first-column cells of the same rows; for the City/Price table these
\* are 5000, 9000 labelled Pune, Mumbai.
C7_PieOfFirstNumericColumn ==
    /\ Extracted /\ NumericCols # {} /\ NoLabelRange
        => LET c == CHOOSE x \in NumericCols : \A y \in NumericCols : x <= y
           IN  /\ display.kind = "charts" /\ Len(display.charts) = 4
               /\ display.charts[3].type = "pie"
               /\ display.charts[4].type = "doughnut"
               /\ \A i \in {3, 4} :
                    /\ Len(display.charts[i].data.datasets) = 1
                    /\ display.charts[i].data.datasets[1].data = ColumnValues(c)
                    /\ display.charts[i].data.labels =
                         [r \in 1..Len(tableData.data) |-> tableData.data[r][1]]
    /\ Rendered /\ content = CityPriceTable
        => /\ display.kind = "charts" /\ Len(display.charts) = 4
           /\ \A i \in {3, 4} :
                /\ display.charts[i].data.datasets[1].data = <<Num(5000), Num(9000)>>
                /\ display.charts[i].data.labels =
                     << <<"P", "u", "n", "e">>, <<"M", "u", "m", "b", "a", "i">> >>

C7_Witness ==
    /\ Extracted /\ NoLabelRange
    /\ 2 \notin NumericCols /\ 3 \in NumericCols
    /\ display.kind = "charts"
    /\ display.charts[3].data.datasets[1].data = ColumnValues(3)

\* The elements of a set of numbers, ascending.
RECURSIVE Ascending(_)
Ascending(S) ==
    IF S = {} THEN <<>>
    ELSE LET lo == CHOOSE x \in S : \A y \in S : x <= y
         IN  <<lo>> \o Ascending(S \ {lo})

\* The datasets of a bar or line chart are the columns cols, in order.
DrawsColumns(chart, cols) ==
    /\ Len(chart.data.datasets) = Len(cols)
    /\ \A k \in 1..Len(cols) :
          /\ chart.data.datasets[k].label = tableData.headers[cols[k]]
          /\ chart.data.datasets[k].data = ColumnValues(cols[k])

\* C16: a column after the first is numeric exactly when each of its cells,
\* commas removed, parses to a number; the bar and line charts draw the
\* numeric columns and no other, the pie, doughnut and scatter charts draw
\* the first (two) of them; the first column is never drawn, and a table
\* without a numeric column has no chart.
C16_NumericColumnsOnly ==
    Extracted
        => LET cols == Ascending(NumericCols)
           IN  /\ display.kind = "null" <=> cols = <<>>
               /\ display.kind = "charts"
                    => \A i \in 1..Len(display.charts) :
                          LET chart == display.charts[i]
                          IN  /\ chart.type \in {"bar", "line"} => DrawsColumns(chart, cols)
                              /\ chart.type \in {"pie", "doughnut"}
                                    => chart.data.datasets[1].data = ColumnValues(cols[1])
                              /\ chart.type = "scatter"
                                    => \A r \in 1..Len(tableData.data) :
                                          chart.data.datasets[1].data[r] =
                                              [x |-> ColumnValues(cols[1])[r],
                                               y |-> ColumnValues(cols[2])[r]]

\* A table with a numeric column and a column where one cell parses and
\* another does not: charts are drawn, without the second.
C16_Witness ==
    /\ Extracted /\ display.kind = "charts"
    /\ \E c \in 2..Len(tableData.headers) :
          /\ c \notin NumericCols
          /\ \E r \in 1..Len(tableData.data) : ~isNaN(CellNumber(tableData.data[r], c))
    /\ Len(display.charts[1].data.datasets) = 1

\* A text is digits, a dash, digits, with optional whitespace around the
\* dash.
RangeLike(v) ==
    \E a, d, b \in 1..Len(v) :
        /\ a < d /\ d < b
        /\ \A i \in 1..a : IsDigit(v[i])
        /\ \A i \in (a + 1)..(d - 1) : IsWS(v[i])
        /\ v[d] = "-"
        /\ \A i \in (d + 1)..(b - 1) : IsWS(v[i])
        /\ \A i \in b..Len(v) : IsDigit(v[i])

\* C17: the charts follow the Range policy (the histogram bar chart, then a
\* scatter chart if there are 2 numeric columns, nothing else) exactly when
\* at least one first-column cell is a range, even among cells that are
\* not; otherwise the continuous policy (bar, line, pie, doughnut).
C17_OneRangeLabelIsRange ==
    Extracted /\ NumericCols # {}
        => /\ display.kind = "charts"
           /\ (\E r \in 1..Len(tableData.data) : RangeLike(LabelOf(tableData.data[r])))
                => /\ ChartTypes = IF Cardinality(NumericCols) >= 2
                                   THEN <<"bar", "scatter">> ELSE <<"bar">>
                   /\ display.charts[1].title = <<"Distribution (Histogram)">>
           /\ (\A r \in 1..Len(tableData.data) : ~RangeLike(LabelOf(tableData.data[r])))
                => /\ ChartTypes = <<"bar", "line", "pie", "doughnut">>
                   /\ display.charts[1].title = <<"Comparison (Bar)">>

\* One label is a range, another is not, and the only chart is the
\* histogram.
C17_Witness ==
    /\ Extracted /\ display.kind = "charts"
    /\ \E r \in 1..Len(tableData.data) : RangeLike(LabelOf(tableData.data[r]))
    /\ \E r \in 1..Len(tableData.data) : ~RangeLike(LabelOf(tableData.data[r]))
    /\ ChartTypes = <<"bar">>

(***************************************************************************)
(* Properties of the table extractor on texts with several runs (SpecRuns).*)
(***************************************************************************)
\* The lines of the first maximal run of pipe lines, in order.
RunLines ==
    LET run == Ascending(FirstRun(ContentLines))
    IN  [k \in 1..Len(run) |-> ContentLines[run[k]]]

\* A line contains "---" or ":--".
DividerLike(line) == includes(line, <<"-", "-", "-">>) \/ includes(line, <<":", "-", "-">>)

\* The place in the run of the first of its first 3 lines that is
\* divider-like (0: none of them is).
FirstDivider ==
    LET first3 == {k \in 1..Len(RunLines) : k <= 3 /\ DividerLike(RunLines[k])}
    IN  IF first3 = {} THEN 0 ELSE CHOOSE k \in first3 : \A j \in first3 : k <= j

\* The cell texts of the pipe lines of the pool, left to right.
CellTexts(line) ==
    CASE line = HeaderLine -> << <<"C", "i", "t", "y">>, <<"P", "r", "i", "c", "e">> >>
      [] line = DividerLine -> << <<"-", "-", "-">>, <<"-", "-", "-">> >>
      [] line = ColonDividerLine -> << <<":", "-", "-">>, <<"-", "-", ":">> >>
      [] line = StrayLine -> << <<"x">> >>
      [] line = TwinLine -> << <<"A">>, <<"A">> >>

\* C15 (as claimed): the headers of a returned table are pairwise distinct,
\* and are the cells of the header line from left to right.
C15_HeadersDistinct ==
    Rendered /\ tableData.kind = "table"
        => /\ \A i, j \in 1..Len(tableData.headers) :
                tableData.headers[i] = tableData.headers[j] => i = j
           /\ tableData.headers = CellTexts(RunLines[FirstDivider - 1])

\* C15 (amended): the headers of a returned table are the trimmed non-blank
\* cells of the header line from left to right, one header per cell: a text
\* that occurs in two cells occurs twice among the headers.
C15_HeadersAreCells ==
    Rendered /\ tableData.kind = "table"
        => tableData.headers = CellTexts(RunLines[FirstDivider - 1])

\* The header line "| A | A |" gives the headers A, A, and a row is kept.
C15_Witness ==
    /\ Rendered /\ tableData.kind = "table"
    /\ tableData.headers = << <<"A">>, <<"A">> >>
    /\ Len(tableData.data) > 0

\* The text of the first run alone.
FirstRunText == join(RunLines, "\n")

\* The first run has what a table needs: 3 lines, and a divider as its
\* second or third line, after a header line.
ValidRun == Len(RunLines) >= 3 /\ FirstDivider >= 2

\* C18 (as claimed): the result is that of the first run alone, whatever
\* follows the first line after it; a first run that is no valid table
\* gives null, also when a table follows, and no exception is raised.
C18_FirstRunOnly ==
    Rendered
        => /\ tableData = parseMarkdownTable(FirstRunText)
           /\ ~ValidRun => tableData.kind = "null" /\ display.kind = "null"
           /\ tableData.kind # "throw" /\ display.kind # "throw"

\* The rows a run gives for a divider at place d and n headers: the cells of
\* the lines from place k on that have n cells.
RECURSIVE RowsAfter(_, _)
RowsAfter(k, n) ==
    IF k > Len(RunLines) THEN <<>>
    ELSE (IF Len(CellTexts(RunLines[k])) = n THEN <<CellTexts(RunLines[k])>> ELSE <<>>)
         \o RowsAfter(k + 1, n)

MsgRendered == msgPhase = "rendered"

\* The lines of the message text.
MsgLines == split(msgContent, "\n")

\* C9: with fewer than 2 configured items (a missing list, no item, one
\* item) the splitter returns null for every text.
C9_FewItemsNoSplit ==
    MsgRendered /\ (~items.present \/ Len(items.list) < 2) => comparison.kind = "null"

\* One item is configured and the text has a heading that names it.
C9_Witness ==
    /\ MsgRendered
    /\ items = [present |-> TRUE, list |-> <<Alpha>>]
    /\ \E i \in 1..Len(MsgLines) : MsgLines[i] = AlphaHeading
    /\ comparison.kind = "null"

\* "### Alpha\nfoo\n### Beta\nbar\n"
AlphaBetaText == join(<<AlphaHeading, FooLine, BetaHeading, BarLine>>, "\n") \o <<"\n">>

AlphaBeta == [present |-> TRUE, list |-> <<Alpha, Beta>>]

\* The item (index in the list, 0: none) whose heading is the last matched
\* heading before line i.
RECURSIVE OwnerOf(_, _, _)
OwnerOf(lines, list, i) ==
    IF i <= 1 THEN 0
    ELSE IF HeadingItem(lines[i - 1], list) # 0 THEN HeadingItem(lines[i - 1], list)
    ELSE OwnerOf(lines, list, i - 1)

\* The non-heading lines among lines[i..] that belong to item k, each
\* followed by one newline; without the last piece of the split when
\* dropLast holds.
RECURSIVE OwnedText(_, _, _, _, _)
OwnedText(lines, list, k, i, dropLast) ==
    IF i > Len(lines) - (IF dropLast THEN 1 ELSE 0) THEN <<>>
    ELSE (IF HeadingItem(lines[i], list) = 0 /\ OwnerOf(lines, list, i) = k
          THEN lines[i] \o <<"\n">> ELSE <<>>)
         \o OwnedText(lines, list, k, i + 1, dropLast)

\* Every section, and the preamble, is the text OwnedText gives.
SectionsAreOwnedText(dropLast) ==
    /\ comparison.generalContent = OwnedText(MsgLines, items.list, 0, 1, dropLast)
    /\ \A e \in 1..Len(comparison.sections) :
          comparison.sections[e].value =
              OwnedText(MsgLines, items.list,
                        indexOf(items.list, comparison.sections[e].key), 1, dropLast)

\* C10 (as claimed): the Alpha/Beta text splits into Alpha: "foo\n",
\* Beta: "bar\n" with an empty preamble, and in general a section is its
\* non-heading lines, each followed by one newline, the text's final line
\* terminator adding nothing.
C10_NothingForFinalTerminator ==
    /\ MsgRendered /\ items = AlphaBeta /\ msgContent = AlphaBetaText
        => /\ comparison.kind = "split"
           /\ comparison.foundItems = <<Alpha, Beta>>
           /\ comparison.generalContent = <<>>
           /\ comparison.sections =
                << [key |-> Alpha, value |-> <<"f", "o", "o", "\n">>],
                   [key |-> Beta, value |-> <<"b", "a", "r", "\n">>] >>
    /\ MsgRendered /\ comparison.kind = "split"
        => SectionsAreOwnedText(msgContent # <<>> /\ msgContent[Len(msgContent)] = "\n")

\* C10 (amended): the Alpha/Beta text splits into Alpha: "foo\n",
\* Beta: "bar\n\n" with an empty preamble; in general a section is the
\* pieces of content.split('\n') that are not headings and follow its
\* heading, each followed by one newline, and the empty piece after a final
\* line terminator is such a piece: it adds one newline to the item that is
\* current at the end of the text.
C10_FinalTerminatorAddsNewline ==
    /\ MsgRendered /\ items = AlphaBeta /\ msgContent = AlphaBetaText
        => /\ comparison.kind = "split"
           /\ comparison.foundItems = <<Alpha, Beta>>
           /\ comparison.generalContent = <<>>
           /\ comparison.sections =
                << [key |-> Alpha, value |-> <<"f", "o", "o", "\n">>],
                   [key |-> Beta, value |-> <<"b", "a", "r", "\n", "\n">>] >>
    /\ MsgRendered /\ comparison.kind = "split" => SectionsAreOwnedText(FALSE)

C10_Witness ==
    /\ MsgRendered /\ items = AlphaBeta /\ msgContent = AlphaBetaText
    /\ comparison.kind = "split"
    /\ Len(comparison.sections) = 2

\* The items (indices in the list) that have a heading among the lines.
HeadedItems(lines, list) ==
    {k \in 1..Len(list) : \E i \in 1..Len(lines) : HeadingItem(lines[i], list) = k}

\* The first line that is a heading of item k.
FirstHeadingOf(lines, list, k) ==
    CHOOSE i \in 1..Len(lines) :
        /\ HeadingItem(lines[i], list) = k
        /\ \A j \in 1..(i - 1) : HeadingItem(lines[j], list) # k

\* The names of the items of the set ks, by the place of their first heading.
RECURSIVE FirstSeen(_, _, _)
FirstSeen(lines, list, ks) ==
    IF ks = {} THEN <<>>
    ELSE LET k == CHOOSE a \in ks : \A b \in ks :
                      FirstHeadingOf(lines, list, a) <= FirstHeadingOf(lines, list, b)
         IN  <<list[k]>> \o FirstSeen(lines, list, ks \ {k})

\* The keys of the returned sections, in their order.
SectionKeys == [e \in 1..Len(comparison.sections) |-> comparison.sections[e].key]

\* C11 (as claimed): in every split, foundItems and the keys of sections
\* list the matched items in the order their headings are first met in the
\* text, also when the names are strings of decimal digits.
C11_FirstSeenOrder ==
    MsgRendered /\ comparison.kind = "split"
        => /\ comparison.foundItems
                = FirstSeen(MsgLines, items.list, HeadedItems(MsgLines, items.list))
           /\ SectionKeys = comparison.foundItems

\* The items that received content: a line that is not a heading was
\* appended to their accumulator.
ItemsWithContent(lines, list) ==
    {k \in 1..Len(list) :
        \E i \in 1..Len(lines) :
            HeadingItem(lines[i], list) = 0 /\ OwnerOf(lines, list, i) = k}

\* C12 (as claimed): when fewer than 2 items received content the splitter
\* returns null; an item with a heading and no line does not count.
C12_NoSplitWithoutContent ==
    MsgRendered /\ Cardinality(ItemsWithContent(MsgLines, items.list)) < 2
        => comparison.kind = "null"

\* C12 (amended): the splitter returns null exactly when fewer than 2
\* distinct items have a heading in the text; an item whose heading is
\* followed by no line counts, and comes out with an empty section.
C12_NoSplitWithoutTwoHeadings ==
    MsgRendered
        => /\ comparison.kind = "null"
                <=> Cardinality(HeadedItems(MsgLines, items.list)) < 2
           /\ comparison.kind = "split"
                => \A e \in 1..Len(comparison.sections) :
                      (comparison.sections[e].value = <<>>)
                          <=> indexOf(items.list, comparison.sections[e].key)
                                  \notin ItemsWithContent(MsgLines, items.list)

\* Both items have a heading, one of them no line: a split is returned and
\* its section is empty.
C12_Witness ==
    /\ MsgRendered /\ items = AlphaBeta
    /\ Cardinality(ItemsWithContent(MsgLines, items.list)) < 2
    /\ comparison.kind = "split"
    /\ \E e \in 1..Len(comparison.sections) : comparison.sections[e].value = <<>>

\* The inner text X of a trimmed line that is entirely "### X", "[X]" or
\* "**X**", as a one-element set (empty: the line has none of these forms).
WholeHeadingText(t) ==
    IF startsWith(t, <<"#", "#", "#">>) THEN {trim(DropTo(t, 4))}
    ELSE IF Len(t) >= 2 /\ startsWith(t, <<"[">>) /\ endsWith(t, <<"]">>)
    THEN {trim(SubSeq(t, 2, Len(t) - 1))}
    ELSE IF Len(t) >= 4 /\ startsWith(t, <<"*", "*">>) /\ endsWith(t, <<"*", "*">>)
    THEN {trim(SubSeq(t, 3, Len(t) - 2))}
    ELSE {}

\* The items a line names by being, as a whole, a heading of one of the
\* three forms.
WholeHeadingItems(line, list) ==
    {k \in 1..Len(list) :
        \E x \in WholeHeadingText(trim(line)) : toLowerCase(x) = toLowerCase(list[k])}

\* The items whose lower-cased name equals the trimmed, lower-cased text the
\* heading pattern extracts from a line.
ExactItems(line, list) ==
    LET m == headerMatch(trim(line))
    IN  {k \in 1..Len(list) :
            m.matched /\ toLowerCase(trim(m.group)) = toLowerCase(list[k])}

\* The length of the lines whose indices are in idx, each with its newline.
RECURSIVE LengthOf(_, _)
LengthOf(lines, idx) ==
    IF idx = {} THEN 0
    ELSE LET i == CHOOSE j \in idx : TRUE
         IN  Len(lines[i]) + 1 + LengthOf(lines, idx \ {i})

\* The length of the first n section values together.
RECURSIVE SectionsLength(_)
SectionsLength(n) ==
    IF n = 0 THEN 0 ELSE Len(comparison.sections[n].value) + SectionsLength(n - 1)

\* The length of all the text the split kept: preamble and sections.
KeptLength == Len(comparison.generalContent) + SectionsLength(Len(comparison.sections))

\* C13 (as claimed): only a line that is, as a whole, "### X", "[X]" or
\* "**X**" with X an item switches the current item; every other line, such
\* as "**Alpha** is cheaper", "[Alpha] and more" or "[Beta**", is content
\* and is kept whole in the preamble or in a section.
C13_OnlyWholeLineHeadings ==
    MsgRendered /\ comparison.kind = "split"
        => /\ KeptLength = LengthOf(MsgLines,
                              {i \in 1..Len(MsgLines) :
                                  WholeHeadingItems(MsgLines[i], items.list) = {}})
           /\ {SectionKeys[e] : e \in 1..Len(SectionKeys)}
                = {items.list[k] : k \in UNION {WholeHeadingItems(MsgLines[i], items.list) :
                                                   i \in 1..Len(MsgLines)}}

\* C20: a line switches the current item exactly when the text the pattern
\* extracts from it, trimmed and lower-cased, equals a lower-cased item
\* name; a heading whose text contains an item name or is contained in one
\* is kept as content; the sections are keyed by the configured names.
C20_ExactMatchOnly ==
    LET exact == UNION {ExactItems(MsgLines[i], items.list) : i \in 1..Len(MsgLines)}
    IN  MsgRendered
            => /\ comparison.kind = "split" <=> Cardinality(exact) >= 2
               /\ comparison.kind = "split"
                    => /\ {SectionKeys[e] : e \in 1..Len(SectionKeys)}
                            = {items.list[k] : k \in exact}
                       /\ KeptLength = LengthOf(MsgLines,
                                          {i \in 1..Len(MsgLines) :
                                              ExactItems(MsgLines[i], items.list) = {}})

\* A text with the headings "### Alphabet", "### Alph" and "**  BETA  **":
\* the first two are content, the third opens the section keyed "Beta".
C20_Witness ==
    /\ MsgRendered /\ comparison.kind = "split"
    /\ \E i \in 1..Len(MsgLines) : MsgLines[i] = AlphabetHeading
    /\ \E i \in 1..Len(MsgLines) : MsgLines[i] = AlphHeading
    /\ \E i \in 1..Len(MsgLines) : MsgLines[i] = UpperBoldHeading
    /\ SectionKeys = <<Alpha, Beta>>
    /\ comparison.sections[2].value = Appended(AlphabetHeading) \o Appended(AlphHeading)

(***************************************************************************)
(* Properties of the configuration sidebar (SpecConfig).                   *)
(***************************************************************************)
\* C14: in every state of the sidebar, whatever items were checked and
\* unchecked, chips removed and comparison types chosen, selectedItems
\* holds at most 5 names and no name twice.
C14_AtMostFiveDistinct ==
    /\ Len(selectedItems) <= 5
    /\ \A i, j \in 1..Len(selectedItems) : selectedItems[i] = selectedItems[j] => i = j

\* Five items are selected and a sixth one is listed, its box disabled.
C14_Witness ==
    /\ Len(selectedItems) = 5
    /\ ~configLoading
    /\ \E i \in 1..Len(Filtered(availableItems, searchTerm)) :
          Disabled(selectedItems, Filtered(availableItems, searchTerm)[i])

(***************************************************************************)
(* Properties of the walk of the comparison splitter (SpecSplit).          *)
(***************************************************************************)
\* The first line that is a matched heading (Len + 1: there is none).
FirstHeading(lines, list) ==
    LET hs == {i \in 1..Len(lines) : HeadingItem(lines[i], list) # 0}
    IN  IF hs = {} THEN Len(lines) + 1 ELSE CHOOSE i \in hs : \A j \in hs : i <= j

\* The lines from..to, each followed by one newline.
RECURSIVE LinesText(_, _, _)
LinesText(lines, from, to) ==
    IF from > to THEN <<>>
    ELSE lines[from] \o <<"\n">> \o LinesText(lines, from + 1, to)

\* C21: every line is handled once - a matched heading goes nowhere, any
\* other line goes, with one newline, to the section of the current item
\* or, before the first matched heading, to the preamble; a second heading
\* of an item continues its section.
C21_EveryLineOnce ==
    MsgRendered /\ comparison.kind = "split"
        => /\ comparison.generalContent =
                LinesText(MsgLines, 1, FirstHeading(MsgLines, items.list) - 1)
           /\ \A e \in 1..Len(comparison.sections) :
                 comparison.sections[e].value =
                     OwnedText(MsgLines, items.list,
                               indexOf(items.list, comparison.sections[e].key), 1, FALSE)
           /\ KeptLength =
                LengthOf(MsgLines,
                         {i \in 1..Len(MsgLines) : HeadingItem(MsgLines[i], items.list) = 0})

\* An item has a heading, a line, and a second heading later on: the line
\* is still in its section.
C21_Witness ==
    /\ MsgRendered /\ comparison.kind = "split"
    /\ \E i, j, k \in 1..Len(MsgLines) :
          /\ i < j /\ j < k
          /\ HeadingItem(MsgLines[i], items.list) = 1
          /\ HeadingItem(MsgLines[j], items.list) = 0
          /\ OwnerOf(MsgLines, items.list, j) = 1
          /\ HeadingItem(MsgLines[k], items.list) = 1
    /\ \E e \in 1..Len(comparison.sections) :
          comparison.sections[e].key = Alpha /\ comparison.sections[e].value # <<>>

(***************************************************************************)
(* Properties of renderMarkdown (SpecMarkdown).                            *)
(***************************************************************************)
\* A line is a level-3 heading line.
IsHeadingLine(line) == startsWith(line, <<"#", "#", "#", " ">>)

\* The lines with every line "[Something]" rewritten to "### Something".
BracketsRewritten(lines) ==
    [i \in 1..Len(lines) |->
        IF Len(lines[i]) >= 2 /\ startsWith(lines[i], <<"[">>) /\ endsWith(lines[i], <<"]">>)
        THEN <<"#", "#", "#", " ">> \o SubSeq(lines[i], 2, Len(lines[i]) - 1)
        ELSE lines[i]]

\* The lines from i on, with one blank line after each heading line that is
\* followed by a line that is not blank.
RECURSIVE BlankAfterHeadings(_, _)
BlankAfterHeadings(lines, i) ==
    IF i > Len(lines) THEN <<>>
    ELSE <<lines[i]>>
         \o (IF IsHeadingLine(lines[i]) /\ i < Len(lines) /\ lines[i + 1] # <<>>
             THEN << <<>> >> ELSE <<>>)
         \o BlankAfterHeadings(lines, i + 1)

\* C22 (as claimed): the rendered text is the message with its bracket
\* lines rewritten and one blank line put after each heading line that is
\* followed by text without one, and no other change.
C22_BlankLineAfterHeadings ==
    MsgRendered /\ comparison.kind = "null"
        => markdown = << join(BlankAfterHeadings(BracketsRewritten(MsgLines), 1), "\n") >>

(***************************************************************************)
(* Properties of the chat (SpecChat, SpecChatFair).                        *)
(***************************************************************************)
\* The executeQuery calls of handleSubmit in flight.
SubmitRequests(requests) ==
    {k \in 1..Len(requests) : requests[k].origin = "handleSubmit"}

SubmitOutstanding == SubmitRequests(queryRequests) # {}

\* C23: a submit whose input is empty or blank, or that is made with no
\* selected item or with no selected category, sends no query request and
\* leaves messages, loading, error, estimatedTime and countdown unchanged;
\* with no selected item or category the typed input is kept too.
C23_RejectedSubmitChangesNothing ==
    [][handleSubmit
       /\ (trim(inputValue) = <<>> \/ Len(selectedItems) = 0 \/ Len(selectedCategories) = 0)
         => /\ UNCHANGED <<queryRequests, messages, loading, error, estimatedTime, countdown>>
            /\ (trim(inputValue) # <<>> => UNCHANGED inputValue)]_vars

\* A submit with a query and an item but no category was rejected: the
\* dialog was shown, the query is still in the input, nothing was sent.
C23_Witness ==
    /\ alert = SelectCategoryAlert
    /\ trim(inputValue) # <<>>
    /\ Len(selectedItems) # 0
    /\ queryRequests = <<>>
    /\ messages = <<>>
    /\ ~loading

\* A step that starts a request of handleSubmit, and one that settles one.
SubmitStarts ==
    Cardinality(SubmitRequests(queryRequests')) > Cardinality(SubmitRequests(queryRequests))

SubmitSettles ==
    Cardinality(SubmitRequests(queryRequests')) < Cardinality(SubmitRequests(queryRequests))

\* The last message.
Last(msgs) == msgs[Len(msgs)]

\* C24: an accepted submit appends the user message with the trimmed query,
\* sends the request for it and sets loading; the step that settles the
\* request appends exactly one message - an assistant message when it
\* resolved, an error message when it rejected - and sets loading false and
\* estimatedTime and countdown to 0; when the request settles, loading
\* eventually becomes false after every submit.
C24_SubmitSettlesOnce ==
    /\ [][/\ SubmitStarts
             => /\ messages' = Append(messages, Message("user", trim(inputValue), EmptyMetadata))
                /\ Last(queryRequests').query = Last(messages').content
                /\ loading'
          /\ SubmitSettles
             => /\ Len(messages') = Len(messages) + 1
                /\ SubSeq(messages', 1, Len(messages)) = messages
                /\ SubmitResolved => Last(messages').role = "assistant"
                /\ SubmitRejected => Last(messages').role = "error"
                /\ Last(messages').role \in {"assistant", "error"}
                /\ ~loading'
                /\ estimatedTime' = 0
                /\ countdown' = 0]_vars
    /\ (SubmitOutstanding ~> ~loading)

\* A submit was accepted and has settled with an answer.
C24_Witness ==
    /\ Len(messages) = 2
    /\ messages[1] = Message("user", <<"h", "i">>, EmptyMetadata)
    /\ messages[2] = Message("assistant", ResponseText(<<"h", "i">>), AnswerMetadata)
    /\ queryRequests = <<>>
    /\ ~loading
    /\ estimatedTime = 0
    /\ countdown = 0

(***************************************************************************)
(* Properties of the settings (SpecSettings).                              *)
(***************************************************************************)
\* C25: a change of the comparison type empties selectedItems and messages
\* in the same step and leaves selectedCategories, selectedYears and both
\* LLM providers as they are.
C25_TypeChangeClearsSelectionAndChat ==
    [][comparisonType' # comparisonType
         => /\ selectedItems' = <<>>
            /\ messages' = <<>>
            /\ UNCHANGED <<selectedCategories, selectedYears, mappingLLMProvider,
                           responseLLMProvider>>]_vars

\* The type was changed once, to City, after the user had changed the
\* categories, the years and both providers: the item and the conversation
\* of the start are gone, the other settings are the changed ones.
C25_Witness ==
    /\ comparisonType = "City"
    /\ InFlight = 1
    /\ selectedItems = <<>>
    /\ messages = <<>>
    /\ selectedCategories = <<"Price">>
    /\ selectedYears = <<2021, 2022, 2023, 2024, 2020>>
    /\ mappingLLMProvider = "Google Gemini"
    /\ responseLLMProvider = "Google Gemini"

(***************************************************************************)
(* Properties of the feedback and the corrections (SpecFeedback).          *)
(***************************************************************************)
\* The message at position i is still there after the step.
Kept(i) == i <= Len(messages') /\ messages'[i] = messages[i]

\* A step that starts a request of onCorrection.
CorrectionStarts ==
    Cardinality({k \in 1..Len(queryRequests') : queryRequests'[k].origin = "onCorrection"})
        > Cardinality({k \in 1..Len(queryRequests) : queryRequests[k].origin = "onCorrection"})

\* C26: a message that shows the acknowledgement of a successful feedback
\* keeps showing it whatever step follows, so that no second feedback
\* request can be sent for it; a failed feedback request leaves the
\* feedback unset and the buttons of its instance usable; onCorrection runs
\* only when a 'down' feedback request resolved.
C26_FeedbackOnce ==
    [][/\ \A i \in 1..Len(messages) :
             buttons[i].feedback # Null /\ Kept(i)
                 => buttons'[i].feedback = buttons[i].feedback
       /\ FeedbackRejected
             => \E k \in 1..Len(feedbackRequests) :
                   /\ feedbackRequests' = Removed(feedbackRequests, k)
                   /\ \A i \in 1..Len(buttons) : buttons'[i].feedback = buttons[i].feedback
                   /\ feedbackRequests[k].live
                         => buttons'[feedbackRequests[k].index] = FreshButtons
       /\ CorrectionStarts
             => \E k \in 1..Len(feedbackRequests) :
                   /\ feedbackRequests[k].type = "down"
                   /\ Len(feedbackRequests') = Len(feedbackRequests) - 1]_vars

\* C27: every assistant message that offers the feedback buttons comes
\* right after the user message whose query produced it.
C27_AnswerFollowsItsQuery ==
    \A i \in 1..Len(messages) :
        OffersFeedback(messages[i])
            => /\ i > 1
               /\ messages[i - 1].role = "user"
               /\ messages[i].content = ResponseText(messages[i - 1].content)

\* C28: loading is true whenever a query request, of handleSubmit or of
\* onCorrection, is outstanding - the input and the submit button are then
\* disabled and no further handleSubmit can start.
C28_LoadingWhileOutstanding == queryRequests # <<>> => loading

\* C30: at most one interval timer runs; none runs when loading is false
\* and no request is outstanding; while one runs, countdown is between 0 and
\* estimatedTime and estimatedTime is at least 55.
C30_OneCountdownTimer ==
    /\ intervals <= 1
    /\ ~loading /\ queryRequests = <<>> => intervals = 0
    /\ intervals > 0
          => /\ 0 <= countdown
             /\ countdown <= estimatedTime
             /\ estimatedTime >= 55

(***************************************************************************)
(* Properties of the item loads (SpecLoads).                               *)
(***************************************************************************)
\* The lists the backend can return for a comparison type.
ListsFor(type) == {ItemsOf(response) : response \in Responses(type)}

\* C29: after any sequence of comparison type changes, once every item
\* load has settled successfully, availableItems is a list returned for
\* the current comparison type - a response for an earlier type that arrives
\* later has not overwritten it.
C29_ItemsOfCurrentType ==
    configPhase = "mounted" /\ InFlight = 0
        => availableItems \in ListsFor(comparisonType)

====
